---- MODULE Spec2Model ----
(***************************************************************************)
(* mock-api: the request-simulation engine.                                *)
(*                                                                         *)
(*   ErrorSimulator   (ShouldError, GetCurrentErrorRate)                   *)
(*   handleRequest    (latency, error check, resolve, emit)                *)
(*   simulateError, getResponseData, convertToJSONCompatible,              *)
(*   normalResponse, streamResponse, sendJSONError                         *)
(*                                                                         *)
(* Goroutines are the processes.  Every sync/atomic operation on the       *)
(* simulator counters is one step; what a goroutine does to its own        *)
(* ResponseWriter between two such operations is local to it.              *)
(*                                                                         *)
(* float64 values are modelled as exact fractions [n, d] (d > 0): every    *)
(* frequency used is a dyadic fraction and every counter is small, so the  *)
(* float comparisons of the code agree with the exact ones.  The counters  *)
(* are uint64 in the code; the bounds below keep them far from 2^64.       *)
(***************************************************************************)
EXTENDS Integers, Sequences, FiniteSets, TLC

(***************************************************************************)
(* Bounds of the model.                                                    *)
(***************************************************************************)
\* goroutines running concurrently
NumProcs == 2
\* ShouldError calls made on one simulator (caps totalRequests)
MaxRequests == 3
\* rand.Float64() is drawn from the grid {0/DrawDen, ..., (DrawDen-1)/DrawDen}
DrawDen == 4
\* the longest string handed to streamResponse directly
MaxStrLen == 7
\* getLatency draws rand.Float64() from {0/LatencyDen, ..., (LatencyDen-1)/LatencyDen}
LatencyDen == 2

Procs == 1..NumProcs

VARIABLES
    simulators,     \* fullPath -> ErrorSimulator {targetFrequency, totalRequests, totalErrors}
    pc,             \* goroutine -> position in the code
    sim,            \* goroutine -> the *ErrorSimulator it was handed
    requests,       \* ShouldError: local `requests`
    currentErrors,  \* ShouldError: local `currentErrors`
    draw,           \* ShouldError: numerator of the value rand.Float64() returned
    shouldError,    \* ShouldError: the value returned by the last call
    rateRequests,   \* GetCurrentErrorRate: local `requests`
    rate,           \* GetCurrentErrorRate: the value returned by the last call
    calls,          \* per simulator: ShouldError calls made so far by its callers
    errorCount,     \* per simulator: calls that returned true (the tests' errorCount++)
    config,         \* the *Config shared by every handler
    req,            \* goroutine -> the request: path (the route's fullPath), stream (query value)
    w,              \* goroutine -> its http.ResponseWriter and what has been done to it
    responseData,   \* handleRequest / streamResponse: `responseData`
    jsonBytes,      \* streamResponse: `jsonBytes`
    chunkSize,      \* streamResponse: `chunkSize`
    loop_i,         \* streamResponse: the loop variable `i`
    chosenLatency,  \* the value getLatency returned, while the goroutine sleeps it
    file,           \* loadConfig: the file named by its argument
    loadResult,     \* loadConfig: the (*Config, error) it returned
    router,         \* setupRouter: the routes registered on the mux.Router
    match           \* Router.ServeHTTP: the mux.RouteMatch of each request

simVars == <<simulators, pc, sim, requests, currentErrors, draw, shouldError,
             rateRequests, rate, calls, errorCount>>
reqVars == <<config, req, w, responseData, jsonBytes, chunkSize, loop_i, chosenLatency>>

vars == <<simulators, pc, sim, requests, currentErrors, draw, shouldError,
          rateRequests, rate, calls, errorCount,
          config, req, w, responseData, jsonBytes, chunkSize, loop_i, chosenLatency,
          file, loadResult, router, match>>

(***************************************************************************)
(* float64 as exact fractions.                                             *)
(***************************************************************************)
Rat(n, d) == [n |-> n, d |-> d]
RatLess(a, b) == a.n * b.d < b.n * a.d
RatEq(a, b) == a.n * b.d = b.n * a.d
RatMul(a, b) == [n |-> a.n * b.n, d |-> a.d * b.d]

(***************************************************************************)
(* Strings and byte slices are sequences of characters.  A printable ASCII *)
(* character, \t, \n, \f and \r are the one-character strings; every other *)
(* code point is the string of its name, "U+0008" (backspace), "U+0060"    *)
(* (backquote), "U+00A0", "U+1F600", and stands for one character.         *)
(***************************************************************************)
\* the printable ASCII characters but the backquote, in the order of their
\* codes
AsciiChars ==
  <<
    " ", "!", "\"", "#", "$", "%", "&", "'", "(", ")", "*", "+", ",", "-", ".", "/",
    "0", "1", "2", "3", "4", "5", "6", "7", "8", "9", ":", ";", "<", "=", ">", "?",
    "@", "A", "B", "C", "D", "E", "F", "G", "H", "I", "J", "K", "L", "M", "N", "O",
    "P", "Q", "R", "S", "T", "U", "V", "W", "X", "Y", "Z", "[", "\\", "]", "^", "_",
    "a", "b", "c", "d", "e", "f", "g", "h", "i", "j", "k", "l", "m", "n", "o",
    "p", "q", "r", "s", "t", "u", "v", "w", "x", "y", "z", "{", "|", "}", "~"
  >>
CharRank(c) == (CHOOSE i \in 1..Len(AsciiChars) : AsciiChars[i] = c)

\* the characters U+0000 to U+001F in the order of their codes
ControlChars ==
  <<
    "U+0000", "U+0001", "U+0002", "U+0003", "U+0004", "U+0005", "U+0006", "U+0007",
    "U+0008", "\t", "\n", "U+000B", "\f", "\r", "U+000E", "U+000F",
    "U+0010", "U+0011", "U+0012", "U+0013", "U+0014", "U+0015", "U+0016", "U+0017",
    "U+0018", "U+0019", "U+001A", "U+001B", "U+001C", "U+001D", "U+001E", "U+001F"
  >>
IsControl(c) == \E i \in 1..Len(ControlChars) : ControlChars[i] = c

UpperHex == <<"0", "1", "2", "3", "4", "5", "6", "7", "8", "9", "A", "B", "C", "D", "E", "F">>
LowerHex == <<"0", "1", "2", "3", "4", "5", "6", "7", "8", "9", "a", "b", "c", "d", "e", "f">>

\* the name U+XXXX of the code point n: four hexadecimal digits at least
RECURSIVE HexName(_, _)
HexName(n, width) ==
    IF n = 0 /\ width <= 0 THEN ""
    ELSE HexName(n \div 16, width - 1) \o UpperHex[(n % 16) + 1]

\* the character with the code n, and the code of a character
Rune(n) ==
    IF n < 32 THEN ControlChars[n + 1]
    ELSE IF n < 96 THEN AsciiChars[n - 31]
    ELSE IF n > 96 /\ n < 127 THEN AsciiChars[n - 32]
    ELSE "U+" \o HexName(n, 4)

Code(c) ==
    IF \E i \in 1..Len(AsciiChars) : AsciiChars[i] = c
      THEN (IF CharRank(c) <= 64 THEN CharRank(c) + 31 ELSE CharRank(c) + 32)
    ELSE IF IsControl(c)
      THEN (CHOOSE i \in 1..Len(ControlChars) : ControlChars[i] = c) - 1
    ELSE IF c = "U+0060" THEN 96
    ELSE IF c = "U+007F" THEN 127
    ELSE CHOOSE n \in 128..1114111 : Rune(n) = c

\* the UTF-8 bytes of the code point n, and of a string
Utf8(n) ==
    IF n < 128 THEN <<n>>
    ELSE IF n < 2048 THEN <<192 + (n \div 64), 128 + (n % 64)>>
    ELSE IF n < 65536
      THEN <<224 + (n \div 4096), 128 + ((n \div 64) % 64), 128 + (n % 64)>>
      ELSE <<240 + (n \div 262144), 128 + ((n \div 4096) % 64),
             128 + ((n \div 64) % 64), 128 + (n % 64)>>

\* an element of a []byte: a byte below 0x80 is written as the ASCII
\* character it encodes, a byte from 0x80 on as 0xHH
Byte(b) == IF b < 128 THEN Rune(b) ELSE "0x" \o HexName(b, 2)
IsByte(c) == Len(c) = 4 /\ \E b \in 128..255 : Byte(b) = c

\* []byte(s) for a string s given by its characters: the UTF-8 bytes, a
\* character above U+007F being two to four elements
RECURSIVE byteSliceFrom(_, _)
byteSliceFrom(cs, i) ==
    IF i > Len(cs) THEN <<>>
    ELSE (IF Len(cs[i]) = 1 \/ IsByte(cs[i]) \/ Code(cs[i]) < 128 THEN <<cs[i]>>
          ELSE CHOOSE bs \in {[j \in 1..Len(utf8) |-> Byte(utf8[j])]
                                 : utf8 \in {Utf8(Code(cs[i]))}} : TRUE)
         \o byteSliceFrom(cs, i + 1)
ByteSlice(cs) == byteSliceFrom(cs, 1)

\* the values of the bytes of a text or of a []byte
RECURSIVE Bytes(_)
Bytes(cs) ==
    IF cs = <<>> THEN <<>>
    ELSE (IF IsByte(Head(cs)) THEN <<CHOOSE b \in 128..255 : Byte(b) = Head(cs)>>
          ELSE Utf8(Code(Head(cs)))) \o Bytes(Tail(cs))

\* a < b for Go strings (bytewise), as sort.Strings orders map keys
RECURSIVE StrLess(_, _)
StrLess(a, b) ==
    IF b = <<>> THEN FALSE
    ELSE IF a = <<>> THEN TRUE
    ELSE IF Head(a) = Head(b) THEN StrLess(Tail(a), Tail(b))
    ELSE Code(Head(a)) < Code(Head(b))

DigitChars == <<"0", "1", "2", "3", "4", "5", "6", "7", "8", "9">>

\* strconv / fmt of an integer
RECURSIVE Itoa(_)
Itoa(n) ==
    IF n < 0 THEN <<"-">> \o Itoa(0 - n)
    ELSE IF n < 10 THEN <<DigitChars[n + 1]>>
    ELSE Itoa(n \div 10) \o <<DigitChars[(n % 10) + 1]>>

Abs(n) == IF n < 0 THEN 0 - n ELSE n

\* the number a sequence of digits writes
RECURSIVE Atoi(_)
Atoi(ds) ==
    IF ds = <<>> THEN 0
    ELSE 10 * Atoi(SubSeq(ds, 1, Len(ds) - 1))
           + ((CHOOSE i \in 1..10 : DigitChars[i] = ds[Len(ds)]) - 1)

\* digits without their trailing zeros, and without their leading zeros
RECURSIVE StripZeros(_)
StripZeros(ds) ==
    IF Len(ds) > 1 /\ ds[Len(ds)] = "0" THEN StripZeros(SubSeq(ds, 1, Len(ds) - 1))
    ELSE ds

RECURSIVE StripLeadingZeros(_)
StripLeadingZeros(ds) ==
    IF Len(ds) > 1 /\ ds[1] = "0" THEN StripLeadingZeros(Tail(ds)) ELSE ds

RECURSIVE Pow10(_)
Pow10(k) == IF k = 0 THEN 1 ELSE 10 * Pow10(k - 1)

\* the concatenation of a sequence of byte slices, sep between them
RECURSIVE Join(_, _)
Join(parts, sep) ==
    IF parts = <<>> THEN <<>>
    ELSE IF Len(parts) = 1 THEN parts[1]
    ELSE parts[1] \o sep \o Join(Tail(parts), sep)

(***************************************************************************)
(* Go values held in interface{}: kind is the dynamic type, n the number   *)
(* of a numeric or boolean value, s the characters of a string, the        *)
(* elements of a slice or the entries [k, v] of a map.                     *)
(***************************************************************************)
Val(kind, n, s) == [kind |-> kind, n |-> n, s |-> s]
NilV == Val("nil", 0, <<>>)
BoolV(b) == Val("bool", IF b THEN 1 ELSE 0, <<>>)
IntV(n) == Val("int", n, <<>>)
\* a finite float64 other than -0 is m * 10^e, m no multiple of 10 (0 is
\* 0 * 10^0); m has at most nine digits, so that the shortest decimal that
\* reads back as the float64 is m itself
FloatE(m, e) == Val("float64", m, <<e>>)
\* the float64 that holds the integer n
FloatV(n) ==
    LET ds == Itoa(Abs(n))
        sig == StripZeros(ds)
    IN  FloatE(IF n < 0 THEN 0 - Atoi(sig) ELSE Atoi(sig), Len(ds) - Len(sig))
\* the float64 -0
NegZero == Val("float64 -0", 0, <<>>)
\* the float64 +Inf (YAML .inf)
PosInf == Val("float64 +Inf", 0, <<>>)
Chan == Val("chan int", 0, <<>>)
StrV(cs) == Val("string", 0, cs)
SliceV(elems) == Val("[]interface {}", 0, elems)
Entry(k, v) == [k |-> k, v |-> v]
MapII(entries) == Val("map[interface {}]interface {}", 0, entries)
MapSI(entries) == Val("map[string]interface {}", 0, entries)
MapSS(entries) == Val("map[string]string", 0, entries)
\* the nil map json.Unmarshal leaves behind for the document null
NilMapSI == Val("nil map[string]interface {}", 0, <<>>)

\* m[key] = v on the entries of a string-keyed map, kept sorted by key
RECURSIVE MapSet(_, _)
MapSet(entries, e) ==
    IF entries = <<>> THEN <<e>>
    ELSE IF Head(entries).k = e.k THEN <<e>> \o Tail(entries)
    ELSE IF StrLess(e.k.s, Head(entries).k.s) THEN <<e>> \o entries
    ELSE <<Head(entries)>> \o MapSet(Tail(entries), e)

\* the map built by assigning the entries in order
RECURSIVE MapOf(_)
MapOf(entries) ==
    IF entries = <<>> THEN <<>>
    ELSE MapSet(MapOf(SubSeq(entries, 1, Len(entries) - 1)), entries[Len(entries)])

(***************************************************************************)
(* strconv.FormatFloat(f, fmt, -1, 64) of a finite float64 other than 0:   *)
(* the shortest decimal that reads back as f.  digits are its decimal      *)
(* digits without trailing zeros and dp the number of them before the      *)
(* decimal point (decimalSlice of strconv).                                *)
(***************************************************************************)
Zeros(n) == [i \in 1..n |-> "0"]

FloatDigits(v) ==
    [neg |-> v.n < 0, digits |-> Itoa(Abs(v.n)), dp |-> Len(Itoa(Abs(v.n))) + v.s[1]]

\* %e: d.ddde+xx, the exponent with two digits at least
FmtE(d) ==
    LET exp == d.dp - 1
    IN  (IF d.neg THEN <<"-">> ELSE <<>>)
        \o <<d.digits[1]>>
        \o (IF Len(d.digits) > 1 THEN <<".">> \o Tail(d.digits) ELSE <<>>)
        \o <<"e", IF exp < 0 THEN "-" ELSE "+">>
        \o (IF Abs(exp) < 10 THEN <<"0">> ELSE <<>>) \o Itoa(Abs(exp))

\* %f: ddd.ddd
FmtF(d) ==
    LET n == Len(d.digits)
    IN  (IF d.neg THEN <<"-">> ELSE <<>>)
        \o (IF d.dp <= 0 THEN <<"0", ".">> \o Zeros(0 - d.dp) \o d.digits
            ELSE IF d.dp >= n THEN d.digits \o Zeros(d.dp - n)
            ELSE SubSeq(d.digits, 1, d.dp) \o <<".">> \o SubSeq(d.digits, d.dp + 1, n))

\* encoding/json floatEncoder: %e below 1e-6 and from 1e21 on, e-0x cleaned
\* up to e-x
MarshalFloat(v) ==
    LET d == FloatDigits(v)
        exp == d.dp - 1
    IN  IF v.n = 0 THEN <<"0">>
        ELSE IF exp < -6 \/ exp >= 21
          THEN LET e == FmtE(d)
                   n == Len(e)
               IN  IF n >= 4 /\ e[n - 3] = "e" /\ e[n - 2] = "-" /\ e[n - 1] = "0"
                     THEN SubSeq(e, 1, n - 2) \o <<e[n]>>
                     ELSE e
          ELSE FmtF(d)

\* fmt %v of a float64, which is %g with the shortest digits: %e for an
\* exponent below -4 or from 6 on
SprintFloat(v) ==
    LET d == FloatDigits(v)
        exp == d.dp - 1
    IN  IF v.n = 0 THEN <<"0">>
        ELSE IF exp < -4 \/ exp >= 6 THEN FmtE(d)
        ELSE FmtF(d)

(***************************************************************************)
(* encoding/json: Marshal.  [ok, bytes]; ok is FALSE when Marshal returns  *)
(* an error (unsupported type or value).                                   *)
(***************************************************************************)
\* the Go release the repository is built and tested with: go-version
\* '1.21' of its workflow
GoVersion == <<1, 21>>

\* a character inside a JSON string literal (HTML-safe escaping is on).  A
\* control character without a short form is written \u00xx; backspace and
\* form feed have the short forms \b and \f from Go 1.22 on
EscapeChar(c) ==
    CASE c = "\"" -> <<"\\", "\"">>
      [] c = "\\" -> <<"\\", "\\">>
      [] c = "\n" -> <<"\\", "n">>
      [] c = "\r" -> <<"\\", "r">>
      [] c = "\t" -> <<"\\", "t">>
      [] c = "\f" /\ GoVersion[2] >= 22 -> <<"\\", "f">>
      [] c = "U+0008" /\ GoVersion[2] >= 22 -> <<"\\", "b">>
      [] c = "<" -> <<"\\", "u", "0", "0", "3", "c">>
      [] c = ">" -> <<"\\", "u", "0", "0", "3", "e">>
      [] c = "&" -> <<"\\", "u", "0", "0", "2", "6">>
      [] c = "U+2028" -> <<"\\", "u", "2", "0", "2", "8">>
      [] c = "U+2029" -> <<"\\", "u", "2", "0", "2", "9">>
      [] OTHER -> IF IsControl(c)
                    THEN <<"\\", "u", "0", "0", LowerHex[(Code(c) \div 16) + 1],
                           LowerHex[(Code(c) % 16) + 1]>>
                    ELSE <<c>>

Quote(cs) == <<"\"">> \o Join([i \in 1..Len(cs) |-> EscapeChar(cs[i])], <<>>) \o <<"\"">>

MarshalError == [ok |-> FALSE, bytes |-> <<>>]
Marshalled(bytes) == [ok |-> TRUE, bytes |-> bytes]

\* the text of the encoding, character by character
RECURSIVE marshal(_)
marshal(v) ==
    CASE v.kind \in {"nil", "nil map[string]interface {}"} ->
           Marshalled(<<"n", "u", "l", "l">>)
      [] v.kind = "bool" ->
           Marshalled(IF v.n = 1 THEN <<"t", "r", "u", "e">>
                                 ELSE <<"f", "a", "l", "s", "e">>)
      [] v.kind = "int" -> Marshalled(Itoa(v.n))
      [] v.kind = "float64" -> Marshalled(MarshalFloat(v))
      [] v.kind = "float64 -0" -> Marshalled(<<"-", "0">>)
      [] v.kind = "string" -> Marshalled(Quote(v.s))
      [] v.kind = "[]interface {}" ->
           LET parts == [i \in 1..Len(v.s) |-> marshal(v.s[i])]
           IN  IF \E i \in 1..Len(v.s) : ~parts[i].ok
                 THEN MarshalError
                 ELSE Marshalled(<<"[">>
                        \o Join([i \in 1..Len(v.s) |-> parts[i].bytes], <<",">>)
                        \o <<"]">>)
      [] v.kind \in {"map[string]interface {}", "map[string]string"} ->
           LET es == MapOf(v.s)
               parts == [i \in 1..Len(es) |-> marshal(es[i].v)]
           IN  IF \E i \in 1..Len(es) : ~parts[i].ok
                 THEN MarshalError
                 ELSE Marshalled(<<"{">>
                        \o Join([i \in 1..Len(es) |->
                                   Quote(es[i].k.s) \o <<":">> \o parts[i].bytes], <<",">>)
                        \o <<"}">>)
      [] OTHER -> MarshalError

\* json.Marshal(v): [ok, bytes], ok being err == nil and bytes the []byte
\* returned, whose length is counted in bytes
Marshal(v) ==
    CHOOSE r \in {[ok |-> e.ok, bytes |-> ByteSlice(e.bytes)] : e \in {marshal(v)}} : TRUE

\* json.NewEncoder(w).Encode(v): the bytes handed to w.Write
Encode(v) ==
    LET m == Marshal(v)
    IN  IF m.ok THEN Marshalled(m.bytes \o <<"\n">>) ELSE MarshalError

(***************************************************************************)
(* fmt.Sprintf("%v", k) of a map key: the keys yaml.v2 decodes are        *)
(* strings, ints, floats, booleans and nil.                                *)
(***************************************************************************)
SprintV(k) ==
    CASE k.kind = "string" -> k.s
      [] k.kind = "int" -> Itoa(k.n)
      [] k.kind = "float64" -> SprintFloat(k)
      [] k.kind = "float64 -0" -> <<"-", "0">>
      [] k.kind = "float64 +Inf" -> <<"+", "I", "n", "f">>
      [] k.kind = "bool" -> IF k.n = 1 THEN <<"t", "r", "u", "e">>
                                      ELSE <<"f", "a", "l", "s", "e">>
      [] k.kind = "nil" -> <<"<", "n", "i", "l", ">">>

(***************************************************************************)
(* encoding/json: Unmarshal of a document into a map[string]interface{}.   *)
(* Numbers have at most nine significant digits.                          *)
(***************************************************************************)
IsSpace(c) == c \in {" ", "\t", "\r", "\n"}
IsDigit(c) == c \in {"0", "1", "2", "3", "4", "5", "6", "7", "8", "9"}
DigitValue(c) == (CHOOSE i \in 1..10 : DigitChars[i] = c) - 1

\* the first position at or after i that holds no white space
RECURSIVE SkipSpace(_, _)
SkipSpace(s, i) ==
    IF i <= Len(s) /\ IsSpace(s[i]) THEN SkipSpace(s, i + 1) ELSE i

\* the outcome of reading a value: ok is false for a text that is not JSON;
\* saved is d.savedError, set when the value holds a number that
\* strconv.ParseFloat has no float64 for (the text is valid JSON, so the
\* decoder goes on: convertNumber returns nil with an UnmarshalTypeError,
\* nil is stored where the number stood)
ParseError == [ok |-> FALSE, v |-> NilV, next |-> 0, saved |-> FALSE]
Parsed(v, next) == [ok |-> TRUE, v |-> v, next |-> next, saved |-> FALSE]
OutOfRange(next) == [ok |-> TRUE, v |-> NilV, next |-> next, saved |-> TRUE]
\* the outcome r of reading the rest when an error was saved before it
WithSaved(r, saved) ==
    CHOOSE out \in {IF x.ok THEN [x EXCEPT !.saved = @ \/ saved] ELSE x : x \in {r}} : TRUE

\* s holds lit at position i
HasLiteral(s, i, lit) ==
    /\ i + Len(lit) - 1 <= Len(s)
    /\ SubSeq(s, i, i + Len(lit) - 1) = lit

\* the value of a hexadecimal digit
IsHex(c) == \E i \in 1..16 : UpperHex[i] = c \/ LowerHex[i] = c
HexValue(c) == (CHOOSE i \in 1..16 : UpperHex[i] = c \/ LowerHex[i] = c) - 1

\* getu4: the code written by the escape \uXXXX at position i, -1 when there
\* is none
Getu4(s, i) ==
    IF /\ i + 5 <= Len(s)
       /\ s[i] = "\\" /\ s[i + 1] = "u"
       /\ \A k \in 2..5 : IsHex(s[i + k])
      THEN 4096 * HexValue(s[i + 2]) + 256 * HexValue(s[i + 3])
             + 16 * HexValue(s[i + 4]) + HexValue(s[i + 5])
      ELSE -1

\* the characters of a string literal from position i (after the opening
\* quote) on, acc being the characters read so far.  A \u escape of a
\* surrogate is one character with the \u escape after it when the two make
\* a pair, and U+FFFD otherwise
RECURSIVE ParseStringFrom(_, _, _)
ParseStringFrom(s, i, acc) ==
    IF i > Len(s) THEN ParseError
    ELSE IF s[i] = "\"" THEN Parsed(StrV(acc), i + 1)
    ELSE IF IsControl(s[i]) THEN ParseError
    ELSE IF s[i] = "\\" THEN
        IF i + 1 > Len(s) THEN ParseError
        ELSE CASE s[i + 1] \in {"\"", "\\", "/"} ->
                    ParseStringFrom(s, i + 2, Append(acc, s[i + 1]))
               [] s[i + 1] = "n" -> ParseStringFrom(s, i + 2, Append(acc, "\n"))
               [] s[i + 1] = "r" -> ParseStringFrom(s, i + 2, Append(acc, "\r"))
               [] s[i + 1] = "t" -> ParseStringFrom(s, i + 2, Append(acc, "\t"))
               [] s[i + 1] = "b" -> ParseStringFrom(s, i + 2, Append(acc, "U+0008"))
               [] s[i + 1] = "f" -> ParseStringFrom(s, i + 2, Append(acc, "\f"))
               [] s[i + 1] = "u" ->
                    LET rr == Getu4(s, i)
                        rr1 == Getu4(s, i + 6)
                    IN  IF rr < 0 THEN ParseError
                        ELSE IF rr < 55296 \/ rr > 57343
                          THEN ParseStringFrom(s, i + 6, Append(acc, Rune(rr)))
                        ELSE IF rr < 56320 /\ rr1 >= 56320 /\ rr1 <= 57343
                          THEN ParseStringFrom(s, i + 12,
                                 Append(acc, Rune(65536 + 1024 * (rr - 55296)
                                                    + (rr1 - 56320))))
                          ELSE ParseStringFrom(s, i + 6, Append(acc, "U+FFFD"))
               [] OTHER -> ParseError
    ELSE ParseStringFrom(s, i + 1, Append(acc, s[i]))

\* the digits from position i on: [digits, next]
RECURSIVE ParseDigitsFrom(_, _, _)
ParseDigitsFrom(s, i, acc) ==
    IF i <= Len(s) /\ IsDigit(s[i])
      THEN ParseDigitsFrom(s, i + 1, Append(acc, s[i]))
      ELSE [digits |-> acc, next |-> i]

\* strconv.ParseFloat of the literal (-)digits e exp, [ok, v]: the float64
\* nearest to digits * 10^exp.  Above the largest float64,
\* 1.7976931348623157e308, the error is ErrRange; at and below half the
\* smallest, 2.47e-324, the value is 0.  Between the smallest float64 and
\* the smallest normal one, 2.2250738585072014e-308, the nearest float64 is
\* a subnormal, which no value of the model stands for.
NumberOf(neg, digits, exp) ==
    LET sig == StripZeros(StripLeadingZeros(digits))
        m == Atoi(sig)
        e == exp + (Len(StripLeadingZeros(digits)) - Len(sig))
        x == e + Len(sig) - 1
        lead == m * Pow10(9 - Len(sig))
    IN  IF m = 0 THEN [ok |-> TRUE, v |-> IF neg THEN NegZero ELSE FloatE(0, 0)]
        ELSE IF x > 308 \/ (x = 308 /\ lead > 179769313)
          THEN [ok |-> FALSE, v |-> NilV]
        ELSE IF x < -324 \/ (x = -324 /\ lead <= 247032822)
          THEN [ok |-> TRUE, v |-> IF neg THEN NegZero ELSE FloatE(0, 0)]
        ELSE [ok |-> TRUE,
              v |-> CHOOSE f \in {FloatE(IF neg THEN 0 - m ELSE m, e)} :
                       x > -308 \/ (x = -308 /\ lead >= 222507386)]

\* a number at position i:
\* -? (0 | [1-9][0-9]*) (. [0-9]+)? ([eE] [+-]? [0-9]+)?
ParseNumber(s, i) ==
    LET neg == s[i] = "-"
        j == IF neg THEN i + 1 ELSE i
        int == IF j <= Len(s) /\ s[j] = "0"
                 THEN [digits |-> <<"0">>, next |-> j + 1]
                 ELSE ParseDigitsFrom(s, j, <<>>)
        hasFrac == int.next <= Len(s) /\ s[int.next] = "."
        frac == IF hasFrac THEN ParseDigitsFrom(s, int.next + 1, <<>>)
                           ELSE [digits |-> <<>>, next |-> int.next]
        hasExp == frac.next <= Len(s) /\ s[frac.next] \in {"e", "E"}
        signed == hasExp /\ frac.next + 1 <= Len(s) /\ s[frac.next + 1] \in {"+", "-"}
        exp == IF hasExp
                 THEN ParseDigitsFrom(s, frac.next + (IF signed THEN 2 ELSE 1), <<>>)
                 ELSE [digits |-> <<"0">>, next |-> frac.next]
        e == IF signed /\ s[frac.next + 1] = "-" THEN 0 - Atoi(exp.digits)
                                                  ELSE Atoi(exp.digits)
    IN  IF int.digits = <<>> THEN ParseError
        ELSE IF hasFrac /\ frac.digits = <<>> THEN ParseError
        ELSE IF hasExp /\ exp.digits = <<>> THEN ParseError
        ELSE LET f == NumberOf(neg, int.digits \o frac.digits, e - Len(frac.digits))
             IN  IF f.ok THEN Parsed(f.v, exp.next) ELSE OutOfRange(exp.next)

\* a value at position i (white space skipped); ParseMembers and
\* ParseElements read the rest of an object and of an array
RECURSIVE ParseValue(_, _), ParseMembers(_, _, _), ParseElements(_, _, _)
ParseValue(s, i) ==
    IF i > Len(s) THEN ParseError
    ELSE CASE s[i] = "{" ->
                LET j == SkipSpace(s, i + 1)
                IN  IF j <= Len(s) /\ s[j] = "}"
                      THEN Parsed(MapSI(<<>>), j + 1)
                      ELSE ParseMembers(s, j, <<>>)
           [] s[i] = "[" ->
                LET j == SkipSpace(s, i + 1)
                IN  IF j <= Len(s) /\ s[j] = "]"
                      THEN Parsed(SliceV(<<>>), j + 1)
                      ELSE ParseElements(s, j, <<>>)
           [] s[i] = "\"" -> ParseStringFrom(s, i + 1, <<>>)
           [] s[i] = "-" \/ IsDigit(s[i]) -> ParseNumber(s, i)
           [] HasLiteral(s, i, <<"t", "r", "u", "e">>) -> Parsed(BoolV(TRUE), i + 4)
           [] HasLiteral(s, i, <<"f", "a", "l", "s", "e">>) -> Parsed(BoolV(FALSE), i + 5)
           [] HasLiteral(s, i, <<"n", "u", "l", "l">>) -> Parsed(NilV, i + 4)
           [] OTHER -> ParseError

ParseMembers(s, i, acc) ==
    IF i > Len(s) \/ s[i] # "\"" THEN ParseError
    ELSE LET key == ParseStringFrom(s, i + 1, <<>>)
         IN  IF ~key.ok THEN ParseError
             ELSE LET j == SkipSpace(s, key.next)
                  IN  IF j > Len(s) \/ s[j] # ":" THEN ParseError
                      ELSE CHOOSE out \in
                             {IF ~val.ok THEN ParseError
                              ELSE LET m == SkipSpace(s, val.next)
                                       entries == MapSet(acc, Entry(key.v, val.v))
                                   IN  IF m > Len(s) THEN ParseError
                                       ELSE IF s[m] = "}"
                                         THEN WithSaved(Parsed(MapSI(entries), m + 1),
                                                        val.saved)
                                       ELSE IF s[m] = ","
                                         THEN WithSaved(ParseMembers(s, SkipSpace(s, m + 1),
                                                                     entries),
                                                        val.saved)
                                         ELSE ParseError
                                : val \in {ParseValue(s, SkipSpace(s, j + 1))}} : TRUE

ParseElements(s, i, acc) ==
    CHOOSE out \in
      {IF ~val.ok THEN ParseError
       ELSE LET m == SkipSpace(s, val.next)
                elems == Append(acc, val.v)
            IN  IF m > Len(s) THEN ParseError
                ELSE IF s[m] = "]" THEN WithSaved(Parsed(SliceV(elems), m + 1), val.saved)
                ELSE IF s[m] = ","
                  THEN WithSaved(ParseElements(s, SkipSpace(s, m + 1), elems), val.saved)
                  ELSE ParseError
         : val \in {ParseValue(s, i)}} : TRUE

\* var result map[string]interface{}; err := json.Unmarshal(text, &result):
\* [ok, v], ok being err == nil and v the map result holds afterwards.
\* checkValid rejects a text that is not JSON before anything is stored.  A
\* document that is not an object or null (a number, in range or not, is
\* one) is a type error and result stays nil.  An object is stored member by member; a number out of range inside
\* it leaves nil in its place and the decoding goes on, so result holds the
\* whole map next to the error.
Unmarshal(text) ==
    LET doc == ParseValue(text, SkipSpace(text, 1))
    IN  IF ~doc.ok \/ SkipSpace(text, doc.next) <= Len(text)
          THEN [ok |-> FALSE, v |-> NilMapSI]
          ELSE IF doc.v.kind = "map[string]interface {}"
                 THEN [ok |-> ~doc.saved, v |-> doc.v]
                 ELSE IF doc.v.kind = "nil" /\ ~doc.saved
                        THEN [ok |-> TRUE, v |-> NilMapSI]
                        ELSE [ok |-> FALSE, v |-> NilMapSI]

(***************************************************************************)
(* strings.TrimRight(s, "/")                                               *)
(***************************************************************************)
\* mutant of TrimRight: one trailing character is removed, not all of them
TrimRightOnce(s, c) ==
    IF s # <<>> /\ s[Len(s)] = c THEN SubSeq(s, 1, Len(s) - 1) ELSE s

RECURSIVE TrimRight(_, _)
TrimRight(s, c) ==
    IF s # <<>> /\ s[Len(s)] = c
      THEN TrimRight(SubSeq(s, 1, Len(s) - 1), c)
      ELSE s

(***************************************************************************)
(* convertToJSONCompatible(i).  The outcomes [res, arg] of one call: res   *)
(* is the value returned, arg the value the argument holds afterwards (a   *)
(* slice is converted in place: x[i] = ...).  A map is ranged over in an   *)
(* order the runtime picks, so when two keys print alike either entry may  *)
(* be the one m2 keeps.                                                    *)
(***************************************************************************)
\* mutant of convertToJSONCompatible: the keys of the map are converted, the
\* values under them and the elements of a slice are returned as they are
convertToJSONCompatibleShallow(i) ==
    CASE i.kind = "map[interface {}]interface {}" ->
           {[res |-> MapSI([j \in 1..Len(i.s) |->
                              Entry(StrV(SprintV(i.s[j].k)), i.s[j].v)]),
             arg |-> i]}
      [] OTHER -> {[res |-> i, arg |-> i]}

RECURSIVE convertToJSONCompatible(_), ConvertMap(_), ConvertSlice(_)
convertToJSONCompatible(i) ==
    CASE i.kind = "map[interface {}]interface {}" ->
           {[res |-> MapSI(o.m2), arg |-> MapII(o.arg)] : o \in ConvertMap(i.s)}
      [] i.kind = "[]interface {}" ->
           {[res |-> SliceV(x), arg |-> SliceV(x)] : x \in ConvertSlice(i.s)}
      [] OTHER -> {[res |-> i, arg |-> i]}

\* the outcomes [m2, arg] of the loop over the entries of a map
ConvertMap(entries) ==
    IF entries = <<>> THEN {[m2 |-> <<>>, arg |-> <<>>]}
    ELSE LET n == Len(entries)
             e == entries[n]
             key == StrV(SprintV(e.k))
         IN  UNION {
               {[m2 |-> IF keep THEN r.m2 ELSE MapSet(r.m2, Entry(key, o.res)),
                 arg |-> Append(r.arg, Entry(e.k, o.arg))]
                  : keep \in {FALSE} \cup
                             {b \in {TRUE} : \E j \in 1..Len(r.m2) : r.m2[j].k = key}}
               : r \in ConvertMap(SubSeq(entries, 1, n - 1)),
                 o \in convertToJSONCompatible(e.v)}

\* the outcomes of the loop over the elements of a slice: the elements stored
ConvertSlice(elems) ==
    IF elems = <<>> THEN {<<>>}
    ELSE LET n == Len(elems)
         IN  {Append(r, o.res) : r \in ConvertSlice(SubSeq(elems, 1, n - 1)),
                                 o \in convertToJSONCompatible(elems[n])}

\* the frequencies of TestShouldError: 0.0, 0.25, 0.5, 0.75, 1.0
TargetFreqs == {Rat(0, 1), Rat(1, 4), Rat(1, 2), Rat(3, 4), Rat(1, 1)}

\* the endpoints registered by setupRouter; each has its own simulator
PathTest == <<"/", "v", "1", "/", "t", "e", "s", "t">>
PathStruct == <<"/", "v", "1", "/", "s", "t", "r", "u", "c", "t">>
PathUnknown == <<"/", "v", "1", "/", "u", "n", "k", "n", "o", "w", "n">>
RegisteredPaths == {PathTest, PathStruct, PathUnknown}
TestSim == PathTest

(***************************************************************************)
(* ErrorSimulator                                                          *)
(***************************************************************************)
NewErrorSimulator(frequency) ==
    [targetFrequency |-> frequency, totalRequests |-> 0, totalErrors |-> 0]

\* atomic.AddUint64(addr, delta): the new value
AddUint64(old, delta) == old + delta

\* mutant of AdjustedProb: the two adjustment factors exchanged
AdjustedProbSwapped(targetFrequency, reqs, errs) ==
    LET currentRate == Rat(errs, reqs)
    IN  IF RatLess(currentRate, targetFrequency)
          THEN RatMul(targetFrequency, Rat(1, 2))
          ELSE IF RatLess(targetFrequency, currentRate)
                 THEN RatMul(targetFrequency, Rat(3, 2))
                 ELSE targetFrequency

\* mutant of AdjustedProb: the increased probability is clamped to 1
AdjustedProbClamped(targetFrequency, reqs, errs) ==
    LET currentRate == Rat(errs, reqs)
        raised == RatMul(targetFrequency, Rat(3, 2))
    IN  IF RatLess(currentRate, targetFrequency)
          THEN IF RatLess(Rat(1, 1), raised) THEN Rat(1, 1) ELSE raised
          ELSE IF RatLess(targetFrequency, currentRate)
                 THEN RatMul(targetFrequency, Rat(1, 2))
                 ELSE targetFrequency

\* ShouldError, lines 300-310: the probability compared with the draw
AdjustedProb(targetFrequency, reqs, errs) ==
    LET currentRate == Rat(errs, reqs)
    IN  IF RatLess(currentRate, targetFrequency)
          THEN RatMul(targetFrequency, Rat(3, 2))
          ELSE IF RatLess(targetFrequency, currentRate)
                 THEN RatMul(targetFrequency, Rat(1, 2))
                 ELSE targetFrequency

\* mutant of DrawBelow: <= in place of <
DrawBelowOrEqual(k, adjustedProb) == ~RatLess(adjustedProb, Rat(k, DrawDen))

\* rand.Float64() < adjustedProb, for the draw k/DrawDen
DrawBelow(k, adjustedProb) == RatLess(Rat(k, DrawDen), adjustedProb)

\* mutant of SE_AddRequests: the counter is read but not incremented
SE_AddRequestsLoadOnly(p) ==
    /\ pc[p] = "se_add_requests"
    /\ requests' = [requests EXCEPT ![p] = simulators[sim[p]].totalRequests]
    /\ pc' = [pc EXCEPT ![p] = "se_load_errors"]
    /\ UNCHANGED <<simulators, sim, currentErrors, draw, shouldError, rateRequests,
                   rate, calls, errorCount,
                   reqVars>>
    /\ UNCHANGED <<file, loadResult, router, match>>

\* requests := atomic.AddUint64(&e.totalRequests, 1)
SE_AddRequests(p) ==
    /\ pc[p] = "se_add_requests"
    /\ LET e == sim[p]
           new == AddUint64(simulators[e].totalRequests, 1)
       IN  /\ simulators' = [simulators EXCEPT ![e].totalRequests = new]
           /\ requests' = [requests EXCEPT ![p] = new]
    /\ pc' = [pc EXCEPT ![p] = "se_load_errors"]
    /\ UNCHANGED <<sim, currentErrors, draw, shouldError, rateRequests, rate,
                   calls, errorCount,
                   reqVars>>
    /\ UNCHANGED <<file, loadResult, router, match>>

\* currentErrors := atomic.LoadUint64(&e.totalErrors)
SE_LoadErrors(p) ==
    /\ pc[p] = "se_load_errors"
    /\ currentErrors' = [currentErrors EXCEPT ![p] = simulators[sim[p]].totalErrors]
    /\ pc' = [pc EXCEPT ![p] = "se_decide"]
    /\ UNCHANGED <<simulators, sim, requests, draw, shouldError, rateRequests,
                   rate, calls, errorCount,
                   reqVars>>
    /\ UNCHANGED <<file, loadResult, router, match>>

\* mutant of SE_Decide: e.totalErrors = currentErrors + 1, a read-modify-write
\* on the snapshot in place of the atomic add
SE_DecideStale(p) ==
    /\ pc[p] = "se_decide"
    /\ \E k \in 0..(DrawDen - 1) :
         LET e == sim[p]
             adjustedProb == AdjustedProb(simulators[e].targetFrequency,
                                          requests[p], currentErrors[p])
             result == DrawBelow(k, adjustedProb)
         IN  /\ draw' = [draw EXCEPT ![p] = k]
             /\ shouldError' = [shouldError EXCEPT ![p] = result]
             /\ simulators' =
                  IF result
                    THEN [simulators EXCEPT ![e].totalErrors = currentErrors[p] + 1]
                    ELSE simulators
             /\ errorCount' = [errorCount EXCEPT ![e] = IF result THEN @ + 1 ELSE @]
    /\ pc' = [pc EXCEPT ![p] = "se_returned"]
    /\ UNCHANGED <<sim, requests, currentErrors, rateRequests, rate, calls,
                   reqVars>>
    /\ UNCHANGED <<file, loadResult, router, match>>

\* the rest of ShouldError: the rate, the adjusted probability, the draw,
\* the conditional atomic.AddUint64(&e.totalErrors, 1) and the return
SE_Decide(p) ==
    /\ pc[p] = "se_decide"
    /\ \E k \in 0..(DrawDen - 1) :
         LET e == sim[p]
             adjustedProb == AdjustedProb(simulators[e].targetFrequency,
                                          requests[p], currentErrors[p])
             result == DrawBelow(k, adjustedProb)
         IN  /\ draw' = [draw EXCEPT ![p] = k]
             /\ shouldError' = [shouldError EXCEPT ![p] = result]
             /\ simulators' =
                  IF result
                    THEN [simulators EXCEPT
                            ![e].totalErrors = AddUint64(simulators[e].totalErrors, 1)]
                    ELSE simulators
             /\ errorCount' = [errorCount EXCEPT ![e] = IF result THEN @ + 1 ELSE @]
    /\ pc' = [pc EXCEPT ![p] = "se_returned"]
    /\ UNCHANGED <<sim, requests, currentErrors, rateRequests, rate, calls,
                   reqVars>>
    /\ UNCHANGED <<file, loadResult, router, match>>

\* requests := atomic.LoadUint64(&e.totalRequests); if requests == 0 { return 0 }
GR_LoadRequests(p) ==
    /\ pc[p] = "gr_load_requests"
    /\ LET r == simulators[sim[p]].totalRequests
       IN  /\ rateRequests' = [rateRequests EXCEPT ![p] = r]
           /\ IF r = 0
                THEN /\ rate' = [rate EXCEPT ![p] = Rat(0, 1)]
                     /\ pc' = [pc EXCEPT ![p] = "gr_returned"]
                ELSE /\ rate' = rate
                     /\ pc' = [pc EXCEPT ![p] = "gr_load_errors"]
    /\ UNCHANGED <<simulators, sim, requests, currentErrors, draw, shouldError,
                   calls, errorCount,
                   reqVars>>
    /\ UNCHANGED <<file, loadResult, router, match>>

\* mutant of GR_LoadErrors: the rate is that of a window, the counters are
\* reset once they are read
GR_LoadErrorsReset(p) ==
    /\ pc[p] = "gr_load_errors"
    /\ rate' = [rate EXCEPT ![p] = Rat(simulators[sim[p]].totalErrors, rateRequests[p])]
    /\ simulators' = [simulators EXCEPT ![sim[p]].totalErrors = 0,
                                        ![sim[p]].totalRequests = 0]
    /\ pc' = [pc EXCEPT ![p] = "gr_returned"]
    /\ UNCHANGED <<sim, requests, currentErrors, draw, shouldError,
                   rateRequests, calls, errorCount,
                   reqVars>>
    /\ UNCHANGED <<file, loadResult, router, match>>

\* mutant of GR_LoadErrors: the requests that did not fail are divided by requests
GR_LoadSuccesses(p) ==
    /\ pc[p] = "gr_load_errors"
    /\ rate' = [rate EXCEPT ![p] = Rat(rateRequests[p] - simulators[sim[p]].totalErrors,
                                       rateRequests[p])]
    /\ pc' = [pc EXCEPT ![p] = "gr_returned"]
    /\ UNCHANGED <<simulators, sim, requests, currentErrors, draw, shouldError,
                   rateRequests, calls, errorCount,
                   reqVars>>
    /\ UNCHANGED <<file, loadResult, router, match>>

\* return float64(atomic.LoadUint64(&e.totalErrors)) / float64(requests)
GR_LoadErrors(p) ==
    /\ pc[p] = "gr_load_errors"
    /\ rate' = [rate EXCEPT ![p] = Rat(simulators[sim[p]].totalErrors, rateRequests[p])]
    /\ pc' = [pc EXCEPT ![p] = "gr_returned"]
    /\ UNCHANGED <<simulators, sim, requests, currentErrors, draw, shouldError,
                   rateRequests, calls, errorCount,
                   reqVars>>
    /\ UNCHANGED <<file, loadResult, router, match>>

(***************************************************************************)
(* http.ResponseWriter.  header is the Content-Type set on Header(),       *)
(* status the code sent by WriteHeader (0: none sent yet), contentType the *)
(* Content-Type that went out with the status line, trace the calls made   *)
(* on the writer and the sleeps of the handler, in order.                  *)
(***************************************************************************)
(***************************************************************************)
(* http.DetectContentType(data), on the first 512 bytes of data: the       *)
(* content type of the first signature of sniffSignatures that matches.    *)
(***************************************************************************)
\* b & mask for two bytes
RECURSIVE BitAnd(_, _)
BitAnd(b, mask) ==
    IF b = 0 \/ mask = 0 THEN 0
    ELSE 2 * BitAnd(b \div 2, mask \div 2) + ((b % 2) * (mask % 2))

\* the signatures in the order they are tried; pat and mask are bytes
sniffSignatures ==
  <<
    [kind |-> "html", pat |-> <<60, 33, 68, 79, 67, 84, 89, 80, 69, 32, 72, 84, 77, 76>>,
     mask |-> <<255, 255, 255, 255, 255, 255, 255, 255, 255, 255, 255, 255, 255, 255>>, skipWS |-> TRUE, ct |-> "text/html; charset=utf-8"],
    [kind |-> "html", pat |-> <<60, 72, 84, 77, 76>>,
     mask |-> <<255, 255, 255, 255, 255>>, skipWS |-> TRUE, ct |-> "text/html; charset=utf-8"],
    [kind |-> "html", pat |-> <<60, 72, 69, 65, 68>>,
     mask |-> <<255, 255, 255, 255, 255>>, skipWS |-> TRUE, ct |-> "text/html; charset=utf-8"],
    [kind |-> "html", pat |-> <<60, 83, 67, 82, 73, 80, 84>>,
     mask |-> <<255, 255, 255, 255, 255, 255, 255>>, skipWS |-> TRUE, ct |-> "text/html; charset=utf-8"],
    [kind |-> "html", pat |-> <<60, 73, 70, 82, 65, 77, 69>>,
     mask |-> <<255, 255, 255, 255, 255, 255, 255>>, skipWS |-> TRUE, ct |-> "text/html; charset=utf-8"],
    [kind |-> "html", pat |-> <<60, 72, 49>>,
     mask |-> <<255, 255, 255>>, skipWS |-> TRUE, ct |-> "text/html; charset=utf-8"],
    [kind |-> "html", pat |-> <<60, 68, 73, 86>>,
     mask |-> <<255, 255, 255, 255>>, skipWS |-> TRUE, ct |-> "text/html; charset=utf-8"],
    [kind |-> "html", pat |-> <<60, 70, 79, 78, 84>>,
     mask |-> <<255, 255, 255, 255, 255>>, skipWS |-> TRUE, ct |-> "text/html; charset=utf-8"],
    [kind |-> "html", pat |-> <<60, 84, 65, 66, 76, 69>>,
     mask |-> <<255, 255, 255, 255, 255, 255>>, skipWS |-> TRUE, ct |-> "text/html; charset=utf-8"],
    [kind |-> "html", pat |-> <<60, 65>>,
     mask |-> <<255, 255>>, skipWS |-> TRUE, ct |-> "text/html; charset=utf-8"],
    [kind |-> "html", pat |-> <<60, 83, 84, 89, 76, 69>>,
     mask |-> <<255, 255, 255, 255, 255, 255>>, skipWS |-> TRUE, ct |-> "text/html; charset=utf-8"],
    [kind |-> "html", pat |-> <<60, 84, 73, 84, 76, 69>>,
     mask |-> <<255, 255, 255, 255, 255, 255>>, skipWS |-> TRUE, ct |-> "text/html; charset=utf-8"],
    [kind |-> "html", pat |-> <<60, 66>>,
     mask |-> <<255, 255>>, skipWS |-> TRUE, ct |-> "text/html; charset=utf-8"],
    [kind |-> "html", pat |-> <<60, 66, 79, 68, 89>>,
     mask |-> <<255, 255, 255, 255, 255>>, skipWS |-> TRUE, ct |-> "text/html; charset=utf-8"],
    [kind |-> "html", pat |-> <<60, 66, 82>>,
     mask |-> <<255, 255, 255>>, skipWS |-> TRUE, ct |-> "text/html; charset=utf-8"],
    [kind |-> "html", pat |-> <<60, 80>>,
     mask |-> <<255, 255>>, skipWS |-> TRUE, ct |-> "text/html; charset=utf-8"],
    [kind |-> "html", pat |-> <<60, 33, 45, 45>>,
     mask |-> <<255, 255, 255, 255>>, skipWS |-> TRUE, ct |-> "text/html; charset=utf-8"],
    [kind |-> "masked", pat |-> <<60, 63, 120, 109, 108>>,
     mask |-> <<255, 255, 255, 255, 255>>, skipWS |-> TRUE, ct |-> "text/xml; charset=utf-8"],
    [kind |-> "exact", pat |-> <<37, 80, 68, 70, 45>>,
     mask |-> <<255, 255, 255, 255, 255>>, skipWS |-> FALSE, ct |-> "application/pdf"],
    [kind |-> "exact", pat |-> <<37, 33, 80, 83, 45, 65, 100, 111, 98, 101, 45>>,
     mask |-> <<255, 255, 255, 255, 255, 255, 255, 255, 255, 255, 255>>, skipWS |-> FALSE, ct |-> "application/postscript"],
    [kind |-> "masked", pat |-> <<254, 255, 0, 0>>,
     mask |-> <<255, 255, 0, 0>>, skipWS |-> FALSE, ct |-> "text/plain; charset=utf-16be"],
    [kind |-> "masked", pat |-> <<255, 254, 0, 0>>,
     mask |-> <<255, 255, 0, 0>>, skipWS |-> FALSE, ct |-> "text/plain; charset=utf-16le"],
    [kind |-> "masked", pat |-> <<239, 187, 191, 0>>,
     mask |-> <<255, 255, 255, 0>>, skipWS |-> FALSE, ct |-> "text/plain; charset=utf-8"],
    [kind |-> "exact", pat |-> <<0, 0, 1, 0>>,
     mask |-> <<255, 255, 255, 255>>, skipWS |-> FALSE, ct |-> "image/x-icon"],
    [kind |-> "exact", pat |-> <<0, 0, 2, 0>>,
     mask |-> <<255, 255, 255, 255>>, skipWS |-> FALSE, ct |-> "image/x-icon"],
    [kind |-> "exact", pat |-> <<66, 77>>,
     mask |-> <<255, 255>>, skipWS |-> FALSE, ct |-> "image/bmp"],
    [kind |-> "exact", pat |-> <<71, 73, 70, 56, 55, 97>>,
     mask |-> <<255, 255, 255, 255, 255, 255>>, skipWS |-> FALSE, ct |-> "image/gif"],
    [kind |-> "exact", pat |-> <<71, 73, 70, 56, 57, 97>>,
     mask |-> <<255, 255, 255, 255, 255, 255>>, skipWS |-> FALSE, ct |-> "image/gif"],
    [kind |-> "exact", pat |-> <<137, 80, 78, 71, 13, 10, 26, 10>>,
     mask |-> <<255, 255, 255, 255, 255, 255, 255, 255>>, skipWS |-> FALSE, ct |-> "image/png"],
    [kind |-> "exact", pat |-> <<255, 216, 255>>,
     mask |-> <<255, 255, 255>>, skipWS |-> FALSE, ct |-> "image/jpeg"],
    [kind |-> "masked", pat |-> <<82, 73, 70, 70, 0, 0, 0, 0, 87, 69, 66, 80, 86, 80>>,
     mask |-> <<255, 255, 255, 255, 0, 0, 0, 0, 255, 255, 255, 255, 255, 255>>, skipWS |-> FALSE, ct |-> "image/webp"],
    [kind |-> "masked", pat |-> <<46, 115, 110, 100>>,
     mask |-> <<255, 255, 255, 255>>, skipWS |-> FALSE, ct |-> "audio/basic"],
    [kind |-> "masked", pat |-> <<70, 79, 82, 77, 0, 0, 0, 0, 65, 73, 70, 70>>,
     mask |-> <<255, 255, 255, 255, 0, 0, 0, 0, 255, 255, 255, 255>>, skipWS |-> FALSE, ct |-> "audio/aiff"],
    [kind |-> "masked", pat |-> <<73, 68, 51>>,
     mask |-> <<255, 255, 255>>, skipWS |-> FALSE, ct |-> "audio/mpeg"],
    [kind |-> "masked", pat |-> <<79, 103, 103, 83, 0>>,
     mask |-> <<255, 255, 255, 255, 255>>, skipWS |-> FALSE, ct |-> "application/ogg"],
    [kind |-> "masked", pat |-> <<77, 84, 104, 100, 0, 0, 0, 6>>,
     mask |-> <<255, 255, 255, 255, 255, 255, 255, 255>>, skipWS |-> FALSE, ct |-> "audio/midi"],
    [kind |-> "masked", pat |-> <<82, 73, 70, 70, 0, 0, 0, 0, 65, 86, 73, 32>>,
     mask |-> <<255, 255, 255, 255, 0, 0, 0, 0, 255, 255, 255, 255>>, skipWS |-> FALSE, ct |-> "video/avi"],
    [kind |-> "masked", pat |-> <<82, 73, 70, 70, 0, 0, 0, 0, 87, 65, 86, 69>>,
     mask |-> <<255, 255, 255, 255, 0, 0, 0, 0, 255, 255, 255, 255>>, skipWS |-> FALSE, ct |-> "audio/wave"],
    [kind |-> "mp4", pat |-> <<>>,
     mask |-> <<>>, skipWS |-> FALSE, ct |-> "video/mp4"],
    [kind |-> "exact", pat |-> <<26, 69, 223, 163>>,
     mask |-> <<255, 255, 255, 255>>, skipWS |-> FALSE, ct |-> "video/webm"],
    [kind |-> "masked", pat |-> <<0, 0, 0, 0, 0, 0, 0, 0, 0, 0, 0, 0, 0, 0, 0, 0, 0, 0, 0, 0, 0, 0, 0, 0, 0, 0, 0, 0, 0, 0, 0, 0, 0, 0, 76, 80>>,
     mask |-> <<0, 0, 0, 0, 0, 0, 0, 0, 0, 0, 0, 0, 0, 0, 0, 0, 0, 0, 0, 0, 0, 0, 0, 0, 0, 0, 0, 0, 0, 0, 0, 0, 0, 0, 255, 255>>, skipWS |-> FALSE, ct |-> "application/vnd.ms-fontobject"],
    [kind |-> "exact", pat |-> <<0, 1, 0, 0>>,
     mask |-> <<255, 255, 255, 255>>, skipWS |-> FALSE, ct |-> "font/ttf"],
    [kind |-> "exact", pat |-> <<79, 84, 84, 79>>,
     mask |-> <<255, 255, 255, 255>>, skipWS |-> FALSE, ct |-> "font/otf"],
    [kind |-> "exact", pat |-> <<116, 116, 99, 102>>,
     mask |-> <<255, 255, 255, 255>>, skipWS |-> FALSE, ct |-> "font/collection"],
    [kind |-> "exact", pat |-> <<119, 79, 70, 70>>,
     mask |-> <<255, 255, 255, 255>>, skipWS |-> FALSE, ct |-> "font/woff"],
    [kind |-> "exact", pat |-> <<119, 79, 70, 50>>,
     mask |-> <<255, 255, 255, 255>>, skipWS |-> FALSE, ct |-> "font/woff2"],
    [kind |-> "exact", pat |-> <<31, 139, 8>>,
     mask |-> <<255, 255, 255>>, skipWS |-> FALSE, ct |-> "application/x-gzip"],
    [kind |-> "exact", pat |-> <<80, 75, 3, 4>>,
     mask |-> <<255, 255, 255, 255>>, skipWS |-> FALSE, ct |-> "application/zip"],
    [kind |-> "exact", pat |-> <<82, 97, 114, 33, 26, 7, 0>>,
     mask |-> <<255, 255, 255, 255, 255, 255, 255>>, skipWS |-> FALSE, ct |-> "application/x-rar-compressed"],
    [kind |-> "exact", pat |-> <<82, 97, 114, 33, 26, 7, 1, 0>>,
     mask |-> <<255, 255, 255, 255, 255, 255, 255, 255>>, skipWS |-> FALSE, ct |-> "application/x-rar-compressed"],
    [kind |-> "exact", pat |-> <<0, 97, 115, 109>>,
     mask |-> <<255, 255, 255, 255>>, skipWS |-> FALSE, ct |-> "application/wasm"],
    [kind |-> "text", pat |-> <<>>,
     mask |-> <<>>, skipWS |-> FALSE, ct |-> "text/plain; charset=utf-8"]
  >>

\* \t, \n, \f, \r and the space
IsWS(b) == b \in {9, 10, 12, 13, 32}

\* the index before the first byte that is no white space
RECURSIVE FirstNonWS(_, _)
FirstNonWS(data, i) ==
    IF i < Len(data) /\ IsWS(data[i + 1]) THEN FirstNonWS(data, i + 1) ELSE i

\* htmlSig.match: the tag without regard to case, then a space or >
HtmlSigMatch(sig, data) ==
    /\ Len(data) >= Len(sig.pat) + 1
    /\ \A i \in 1..Len(sig.pat) :
          sig.pat[i] = IF sig.pat[i] >= 65 /\ sig.pat[i] <= 90
                         THEN BitAnd(data[i], 223) ELSE data[i]
    /\ data[Len(sig.pat) + 1] \in {32, 62}

\* maskedSig.match and exactSig.match
MaskedSigMatch(sig, data) ==
    /\ Len(data) >= Len(sig.pat)
    /\ \A i \in 1..Len(sig.pat) : BitAnd(data[i], sig.mask[i]) = sig.pat[i]

\* mp4Sig.match: a box whose size is a multiple of four, of type ftyp, with
\* a brand mp4 other than in the version field
Mp4SigMatch(data) ==
    /\ Len(data) >= 12
    /\ data[1] = 0
    /\ LET boxSize == 65536 * data[2] + 256 * data[3] + data[4]
       IN  /\ Len(data) >= boxSize
           /\ boxSize % 4 = 0
           /\ SubSeq(data, 5, 8) = <<102, 116, 121, 112>>
           /\ \E k \in 2..((boxSize \div 4) - 1) :
                 /\ k # 3
                 /\ SubSeq(data, 4 * k + 1, 4 * k + 3) = <<109, 112, 52>>

\* textSig.match: no binary data byte after the leading white space
TextSigMatch(data) ==
    \A i \in 1..Len(data) :
        ~(data[i] <= 8 \/ data[i] = 11 \/ (data[i] >= 14 /\ data[i] <= 26)
            \/ (data[i] >= 28 /\ data[i] <= 31))

SigMatch(sig, data, firstNonWS) ==
    LET rest == SubSeq(data, firstNonWS + 1, Len(data))
    IN  CASE sig.kind = "html" -> HtmlSigMatch(sig, rest)
          [] sig.kind = "masked" ->
               MaskedSigMatch(sig, IF sig.skipWS THEN rest ELSE data)
          [] sig.kind = "exact" -> MaskedSigMatch(sig, data)
          [] sig.kind = "mp4" -> Mp4SigMatch(data)
          [] sig.kind = "text" -> TextSigMatch(rest)

\* the content type of the first signature that matches data
FirstMatch(data, firstNonWS) ==
    LET hits == {i \in 1..Len(sniffSignatures) :
                   SigMatch(sniffSignatures[i], data, firstNonWS)}
    IN  IF hits = {} THEN "application/octet-stream"
        ELSE sniffSignatures[CHOOSE i \in hits : \A j \in hits : i <= j].ct

DetectContentType(b) ==
    CHOOSE ct \in {FirstMatch(data, FirstNonWS(data, 0))
                     : data \in {SubSeq(all, 1, IF Len(all) > 512 THEN 512 ELSE Len(all))
                                   : all \in {Bytes(b)}}} : TRUE

Ev(op, n, s) == [op |-> op, n |-> n, s |-> s]
\* broken: the client is gone, every Write from now on returns an error (the
\* recorder of the tests never is)
NewRecorder ==
    [header |-> "", status |-> 0, contentType |-> "", trace |-> <<>>, broken |-> FALSE]

\* w.Header().Set("Content-Type", ct): no effect on what was already sent
SetHeader(rw, ct) == [rw EXCEPT !.header = ct]

\* w.WriteHeader(code): a second call is superfluous and ignored
WriteHeader(rw, code) ==
    IF rw.status # 0
      THEN [rw EXCEPT !.trace = Append(@, Ev("WriteHeader", code, <<>>))]
      ELSE [rw EXCEPT !.status = code, !.contentType = rw.header,
                      !.trace = Append(@, Ev("WriteHeader", code, <<>>))]

\* w.Write(b): sends the header with 200 when none was sent, the
\* Content-Type being the one detected from b when none was set
Write(rw, b) ==
    LET ct == IF rw.header = "" THEN DetectContentType(b) ELSE rw.header
        sent == IF rw.status # 0 THEN rw
                ELSE [rw EXCEPT !.status = 200, !.header = ct, !.contentType = ct]
    IN  [sent EXCEPT !.trace = Append(@, Ev(IF rw.broken THEN "WriteErr" ELSE "Write", 0, b))]
\* the error w.Write returns is nil
WriteOk(rw) == ~rw.broken
\* the connection breaks
Break(rw) == [rw EXCEPT !.broken = TRUE]

\* f.Flush(): sends the header with 200 when none was sent
Flush(rw) ==
    LET sent == IF rw.status # 0 THEN rw
                ELSE [rw EXCEPT !.status = 200, !.contentType = rw.header]
    IN  [sent EXCEPT !.trace = Append(@, Ev("Flush", 0, <<>>))]

\* time.Sleep seen from the response: nothing is written while it lasts
Slept(rw) == [rw EXCEPT !.trace = Append(@, Ev("Sleep", 0, <<>>))]

\* http.Error(w, msg, code)
HttpError(rw, msg, code) ==
    Write(WriteHeader(SetHeader(rw, "text/plain; charset=utf-8"), code), msg \o <<"\n">>)

\* the bytes written to the writer, in order, and the body they make
RECURSIVE Writes(_)
Writes(trace) ==
    IF trace = <<>> THEN <<>>
    ELSE IF Head(trace).op = "Write" THEN <<Head(trace).s>> \o Writes(Tail(trace))
    ELSE Writes(Tail(trace))
Body(rw) == Join(Writes(rw.trace), <<>>)

(***************************************************************************)
(* The handler: src/unnamed/part_001                                       *)
(***************************************************************************)
InternalServerError == <<"I", "n", "t", "e", "r", "n", "a", "l", " ", "s", "e", "r", "v", "e", "r", " ", "e", "r", "r", "o", "r">>
MinimalError == <<"{", "\"", "e", "r", "r", "o", "r", "\"", ":", "\"", "I", "n", "t", "e", "r", "n", "a", "l", " ", "s", "e", "r", "v", "e", "r", " ", "e", "r", "r", "o", "r", "\"", "}">>
DataPrefix == <<"d", "a", "t", "a", ":", " ">>
FrameEnd == <<"\n", "\n">>
DoneFrame == <<"d", "a", "t", "a", ":", " ", "[", "D", "O", "N", "E", "]", "\n", "\n">>
StatusInternalServerError == 500

\* mutant of getLatency: the draw scales High, not High - Low
getLatencyScaleHigh(cfg, k) ==
    LET low == cfg.Latency.Low
        high == cfg.Latency.High
    IN  Rat(low.n * high.d * LatencyDen + k * high.n * low.d,
            low.d * high.d * LatencyDen)

\* config.Latency.Low + rand.Float64()*(config.Latency.High-config.Latency.Low)
\* for the draw k/LatencyDen
getLatency(cfg, k) ==
    LET low == cfg.Latency.Low
        high == cfg.Latency.High
    IN  Rat(low.n * high.d * LatencyDen + k * (high.n * low.d - low.n * high.d),
            low.d * high.d * LatencyDen)

\* sendJSONError(w, code, message); ErrorResponse{Error: message} always encodes
\* the Encoder returns the error of w.Write; the minimal document is then
\* written with w.Write
sendJSONError(rw, code, message) ==
    LET sent == WriteHeader(SetHeader(rw, "application/json"), code)
        encoded == Write(sent, Encode(MapSS(<<Entry(StrV(<<"e", "r", "r", "o", "r">>),
                                                    StrV(message))>>)).bytes)
    IN  IF WriteOk(sent) THEN encoded ELSE Write(encoded, MinimalError)

\* mutant of simulateError: the call of WriteHeader left out
simulateErrorNoStatus(rw, cfg, errorBody) ==
    LET set == SetHeader(rw, "application/json")
        m == Marshal(errorBody)
    IN  IF ~m.ok THEN Write(set, MinimalError) ELSE Write(set, m.bytes)

\* simulateError, lines 62-63: the header and the status are sent before the
\* error body is converted
simulateErrorHeader(rw, cfg) ==
    WriteHeader(SetHeader(rw, "application/json"), cfg.ErrorResponse.Code)

\* simulateError, lines 68-78: json.Marshal(errorBody) and the one Write
simulateErrorBody(sent, errorBody) ==
    LET m == Marshal(errorBody)
    IN  IF ~m.ok THEN Write(sent, MinimalError) ELSE Write(sent, m.bytes)

\* simulateError(w, r, config) when convertToJSONCompatible returned errorBody
simulateError(rw, cfg, errorBody) ==
    simulateErrorBody(simulateErrorHeader(rw, cfg), errorBody)

\* mutant of getResponseData: the default message names the path as given
getResponseDataRawPath(path, cfg) ==
    LET normalizedPath == TrimRight(path, "/")
    IN  IF normalizedPath \in DOMAIN cfg.Responses
          THEN LET override == cfg.Responses[normalizedPath]
               IN  IF override.kind = "string"
                     THEN LET u == Unmarshal(override.s)
                          IN  {[data |-> IF u.ok THEN u.v
                                         ELSE MapSS(<<Entry(StrV(<<"e", "r", "r", "o", "r">>),
                                                            StrV(<<"I", "n", "v", "a", "l", "i", "d", " ", "J", "S", "O", "N", " ", "o", "v", "e", "r", "r", "i", "d", "e">>))>>),
                                config |-> cfg]}
                     ELSE {[data |-> o.res,
                            config |-> [cfg EXCEPT !.Responses[normalizedPath] = o.arg]]
                             : o \in convertToJSONCompatible(override)}
          ELSE {[data |-> MapSS(<<Entry(StrV(<<"m", "e", "s", "s", "a", "g", "e">>),
                                        StrV(<<"R", "e", "s", "p", "o", "n", "s", "e", " ", "f", "o", "r", " ">> \o path))>>),
                 config |-> cfg]}

\* mutant of getResponseData: a text that fails to parse is not replaced by
\* the placeholder, the nil map is returned
getResponseDataNoPlaceholder(path, cfg) ==
    LET normalizedPath == TrimRight(path, "/")
    IN  IF normalizedPath \in DOMAIN cfg.Responses
          THEN LET override == cfg.Responses[normalizedPath]
               IN  IF override.kind = "string"
                     THEN {[data |-> Unmarshal(override.s).v, config |-> cfg]}
                     ELSE {[data |-> o.res,
                            config |-> [cfg EXCEPT !.Responses[normalizedPath] = o.arg]]
                             : o \in convertToJSONCompatible(override)}
          ELSE {[data |-> MapSS(<<Entry(StrV(<<"m", "e", "s", "s", "a", "g", "e">>),
                                        StrV(<<"R", "e", "s", "p", "o", "n", "s", "e", " ", "f", "o", "r", " ">> \o normalizedPath))>>),
                 config |-> cfg]}

\* getResponseData(path, config): the outcomes [data, config], config being
\* the configuration as the call leaves it
getResponseData(path, cfg) ==
    LET normalizedPath == TrimRight(path, "/")
    IN  IF normalizedPath \in DOMAIN cfg.Responses
          THEN LET override == cfg.Responses[normalizedPath]
               IN  IF override.kind = "string"
                     THEN LET u == Unmarshal(override.s)
                          IN  {[data |-> IF u.ok THEN u.v
                                         ELSE MapSS(<<Entry(StrV(<<"e", "r", "r", "o", "r">>),
                                                            StrV(<<"I", "n", "v", "a", "l", "i", "d", " ", "J", "S", "O", "N", " ", "o", "v", "e", "r", "r", "i", "d", "e">>))>>),
                                config |-> cfg]}
                     ELSE {[data |-> o.res,
                            config |-> [cfg EXCEPT !.Responses[normalizedPath] = o.arg]]
                             : o \in convertToJSONCompatible(override)}
          ELSE {[data |-> MapSS(<<Entry(StrV(<<"m", "e", "s", "s", "a", "g", "e">>),
                                        StrV(<<"R", "e", "s", "p", "o", "n", "s", "e", " ", "f", "o", "r", " ">> \o normalizedPath))>>),
                 config |-> cfg]}

\* normalResponse(w, responseData)
normalResponse(rw, data) ==
    LET e == Encode(data)
        set == SetHeader(rw, "application/json")
    IN  IF e.ok /\ WriteOk(set) THEN Write(set, e.bytes)
        ELSE sendJSONError(IF e.ok THEN Write(set, e.bytes) ELSE set,
                           StatusInternalServerError, InternalServerError)

\* mutant of isStreaming: any value of the stream parameter asks for a stream
isStreamingAnyValue(r) == r.stream # ""

\* isStreaming(r)
isStreaming(r) == r.stream = "true"

\* streamResponse, lines 147-151
ChunkCount == 3
\* mutant of ChunkSizeOf: the test of lines 149-151 left out
ChunkSizeOfUnguarded(len) == len \div ChunkCount
ChunkSizeOf(len) == IF len \div ChunkCount = 0 THEN len ELSE len \div ChunkCount

\* mutant of Frame: the chunk is jsonBytes[i:end+1], one byte into the next
FrameOverlapping(bytes, at, size) ==
    LET end == IF at + size + 1 > Len(bytes) THEN Len(bytes) ELSE at + size + 1
    IN  DataPrefix \o SubSeq(bytes, at + 1, end) \o FrameEnd

\* streamResponse, lines 153-158: the frame written for the chunk at offset i
Frame(bytes, at, size) ==
    LET end == IF at + size > Len(bytes) THEN Len(bytes) ELSE at + size
    IN  DataPrefix \o SubSeq(bytes, at + 1, end) \o FrameEnd

\* a caller's locals (and the values a call returned) die with the call
NoLocals(p) ==
    /\ requests' = [requests EXCEPT ![p] = 0]
    /\ currentErrors' = [currentErrors EXCEPT ![p] = 0]
    /\ draw' = [draw EXCEPT ![p] = 0]
    /\ shouldError' = [shouldError EXCEPT ![p] = FALSE]
    /\ rateRequests' = [rateRequests EXCEPT ![p] = 0]
    /\ rate' = [rate EXCEPT ![p] = Rat(0, 1)]

(***************************************************************************)
(* The configuration of the handler tests (createTestConfig and the        *)
(* overrides the tests install), structured values as the YAML loader      *)
(* hands them over.                                                        *)
(***************************************************************************)
KeyError == StrV(<<"e", "r", "r", "o", "r">>)
SimulatedErrorBody == MapII(<<Entry(KeyError, StrV(<<"s", "i", "m", "u", "l", "a", "t", "e", "d", " ", "e", "r", "r", "o", "r">>))>>)
\* an error body that is a YAML list holding a mapping: the conversion
\* stores the converted map in the slot of the list
ListErrorBody == SliceV(<<IntV(1), SimulatedErrorBody>>)
\* the error bodies whose conversion writes nothing that goroutines share
PlainErrorBodies == {SimulatedErrorBody, PosInf}
ErrorBodies == PlainErrorBodies \cup {ListErrorBody}
TestResponses ==
    (PathTest :> StrV(<<"{", "\"", "c", "u", "s", "t", "o", "m", "\"", ":", "\"", "d", "a", "t", "a", "\"", ",", "\"", "v", "a", "l", "u", "e", "\"", ":", "1", "2", "3", "}">>))
    @@ (PathStruct :> MapII(<<Entry(StrV(<<"s", "t", "a", "t", "u", "s">>), StrV(<<"s", "u", "c", "c", "e", "s", "s">>)),
                              Entry(StrV(<<"c", "o", "d", "e">>), IntV(200))>>))
TestConfig(body, frequency) ==
    [Latency |-> [Low |-> Rat(10, 1), High |-> Rat(20, 1)],
     Responses |-> TestResponses,
     ErrorResponse |-> [Code |-> 500, Body |-> body, Frequency |-> frequency]]

\* the error frequencies the server is configured with: never, half, always
ConfigFreqs == {Rat(0, 1), Rat(1, 2), Rat(1, 1)}

\* the values of the stream query parameter
StreamParams == {"", "true", "false"}

\* the simulator state but for the goroutines' positions
simState == <<simulators, sim, requests, currentErrors, draw, shouldError,
              rateRequests, rate, calls, errorCount>>

NoRequest == [path |-> <<>>, stream |-> ""]

\* the locals of handleRequest and streamResponse before the call
NoResponse(p) ==
    /\ responseData' = [responseData EXCEPT ![p] = NilV]
    /\ jsonBytes' = [jsonBytes EXCEPT ![p] = <<>>]
    /\ chunkSize' = [chunkSize EXCEPT ![p] = 0]
    /\ loop_i' = [loop_i EXCEPT ![p] = 0]

RECURSIVE SumCalls(_)
SumCalls(paths) ==
    IF paths = {} THEN 0
    ELSE LET e == CHOOSE x \in paths : TRUE
         IN  calls[e] + SumCalls(paths \ {e})
\* requests dispatched so far
Dispatched == SumCalls(RegisteredPaths) + Cardinality({q \in Procs : pc[q] = "hr_sleep"})

(***************************************************************************)
(* handleRequest, one goroutine per request.                               *)
(***************************************************************************)
\* mutant of HR_Begin: ShouldError is called at once, the delay left out
HR_BeginNoSleep(p) ==
    /\ pc[p] \in {"idle", "done"}
    /\ Dispatched < MaxRequests
    /\ \E path \in RegisteredPaths, stream \in StreamParams :
         /\ req' = [req EXCEPT ![p] = [path |-> path, stream |-> stream]]
         /\ sim' = [sim EXCEPT ![p] = path]
         /\ calls' = [calls EXCEPT ![path] = @ + 1]
    /\ w' = [w EXCEPT ![p] = NewRecorder]
    /\ NoResponse(p)
    /\ NoLocals(p)
    /\ pc' = [pc EXCEPT ![p] = "se_add_requests"]
    /\ UNCHANGED <<simulators, errorCount, config, chosenLatency>>
    /\ UNCHANGED <<file, loadResult, router, match>>

\* the route's closure calls handleRequest(w, r, fullPath, config, simulator);
\* chosenLatency := getLatency(config); the goroutine goes to sleep
HR_Begin(p) ==
    /\ pc[p] \in {"idle", "done"}
    /\ Dispatched < MaxRequests
    /\ \E path \in RegisteredPaths, stream \in StreamParams, k \in 0..(LatencyDen - 1) :
         /\ req' = [req EXCEPT ![p] = [path |-> path, stream |-> stream]]
         /\ sim' = [sim EXCEPT ![p] = path]
         /\ chosenLatency' = [chosenLatency EXCEPT ![p] = getLatency(config, k)]
    /\ w' = [w EXCEPT ![p] = NewRecorder]
    /\ NoResponse(p)
    /\ NoLocals(p)
    /\ pc' = [pc EXCEPT ![p] = "hr_sleep"]
    /\ UNCHANGED <<simulators, calls, errorCount, config>>
    /\ UNCHANGED <<file, loadResult, router, match>>

\* time.Sleep returns; simulator.ShouldError() is called
HR_CallShouldError(p) ==
    /\ pc[p] = "hr_sleep"
    /\ w' = [w EXCEPT ![p] = Slept(@)]
    /\ chosenLatency' = [chosenLatency EXCEPT ![p] = Rat(0, 1)]
    /\ calls' = [calls EXCEPT ![sim[p]] = @ + 1]
    /\ pc' = [pc EXCEPT ![p] = "se_add_requests"]
    /\ UNCHANGED <<simulators, sim, requests, currentErrors, draw, shouldError,
                   rateRequests, rate, errorCount, config, req, responseData,
                   jsonBytes, chunkSize, loop_i>>
    /\ UNCHANGED <<file, loadResult, router, match>>

\* the locals of the ShouldError call are gone once handleRequest has
\* branched on the value it returned
CallOver(p) ==
    /\ requests' = [requests EXCEPT ![p] = 0]
    /\ currentErrors' = [currentErrors EXCEPT ![p] = 0]
    /\ draw' = [draw EXCEPT ![p] = 0]

\* what a goroutine holds or finds once a data race has torn a value: the
\* program's behaviour is no longer defined by the code
Undefined == Val("undefined", 0, <<>>)

\* convertToJSONCompatible(v) stores a value of another type in a slot of a
\* slice of v (x[i] = ..., line 118, where x[i] is a map keyed by
\* interface{}): an interface value of two words, written to memory every
\* goroutine reaches through config, without synchronisation.  Every other
\* slot is written back the value it holds.
RECURSIVE RewritesShared(_)
RewritesShared(v) ==
    CASE v.kind = "[]interface {}" ->
           \E i \in DOMAIN v.s :
               v.s[i].kind = "map[interface {}]interface {}" \/ RewritesShared(v.s[i])
      [] v.kind = "map[interface {}]interface {}" ->
           \E i \in DOMAIN v.s : RewritesShared(v.s[i].v)
      [] OTHER -> FALSE

\* the override getResponseData finds for the request of p, nil for none
OverrideOf(p) ==
    LET normalizedPath == TrimRight(req[p].path, "/")
    IN  IF normalizedPath \in DOMAIN config.Responses
          THEN config.Responses[normalizedPath] ELSE NilV

\* the goroutines other than p inside the conversion of the override that
\* p resolves
Converting(p) ==
    {q \in Procs \ {p} : /\ pc[q] \in {"gd_convert", "gd_raced"}
                          /\ TrimRight(req[q].path, "/") = TrimRight(req[p].path, "/")}

\* the goroutines other than p inside the conversion of the error body
ConvertingBody(p) == {q \in Procs \ {p} : pc[q] \in {"eb_convert", "eb_raced"}}

\* mutant of HR_SimulateError: the return after simulateError left out
HR_SimulateErrorNoReturn(p) ==
    /\ pc[p] = "se_returned"
    /\ shouldError[p]
    /\ IF config.ErrorResponse.Body = Undefined
         THEN /\ w' = [w EXCEPT ![p] = simulateErrorHeader(@, config)]
              /\ pc' = [pc EXCEPT ![p] = "undefined"]
              /\ UNCHANGED config
         ELSE IF RewritesShared(config.ErrorResponse.Body)
           THEN /\ w' = [w EXCEPT ![p] = simulateErrorHeader(@, config)]
                /\ pc' = [q \in Procs |->
                            IF ConvertingBody(p) = {}
                              THEN (IF q = p THEN "eb_convert" ELSE pc[q])
                            ELSE IF q \in ConvertingBody(p) \cup {p} THEN "eb_raced"
                            ELSE pc[q]]
                /\ UNCHANGED config
           ELSE /\ \E o \in convertToJSONCompatible(config.ErrorResponse.Body) :
                     /\ config' = [config EXCEPT !.ErrorResponse.Body = o.arg]
                     /\ w' = [w EXCEPT ![p] = simulateError(@, config, o.res)]
                /\ pc' = [pc EXCEPT ![p] = "hr_respond"]
    /\ CallOver(p)
    /\ UNCHANGED <<simulators, sim, shouldError, rateRequests, rate, calls, errorCount,
                   req, responseData, jsonBytes, chunkSize, loop_i, chosenLatency>>
    /\ UNCHANGED <<file, loadResult, router, match>>

\* ShouldError returned true: simulateError(w, r, config); return.  The call
\* is one step unless the conversion of the error body rewrites shared
\* slots: then the header and the status are sent (lines 62-63) and the
\* goroutine enters the loop of lines 116-120, and when another goroutine
\* is inside that loop on the error body the two race.
HR_SimulateError(p) ==
    /\ pc[p] = "se_returned"
    /\ shouldError[p]
    /\ IF config.ErrorResponse.Body = Undefined
         THEN /\ w' = [w EXCEPT ![p] = simulateErrorHeader(@, config)]
              /\ pc' = [pc EXCEPT ![p] = "undefined"]
              /\ UNCHANGED config
         ELSE IF RewritesShared(config.ErrorResponse.Body)
           THEN /\ w' = [w EXCEPT ![p] = simulateErrorHeader(@, config)]
                /\ pc' = [q \in Procs |->
                            IF ConvertingBody(p) = {}
                              THEN (IF q = p THEN "eb_convert" ELSE pc[q])
                            ELSE IF q \in ConvertingBody(p) \cup {p} THEN "eb_raced"
                            ELSE pc[q]]
                /\ UNCHANGED config
           ELSE /\ \E o \in convertToJSONCompatible(config.ErrorResponse.Body) :
                     /\ config' = [config EXCEPT !.ErrorResponse.Body = o.arg]
                     /\ w' = [w EXCEPT ![p] = simulateError(@, config, o.res)]
                /\ pc' = [pc EXCEPT ![p] = "done"]
    /\ CallOver(p)
    /\ UNCHANGED <<simulators, sim, shouldError, rateRequests, rate, calls, errorCount,
                   req, responseData, jsonBytes, chunkSize, loop_i, chosenLatency>>
    /\ UNCHANGED <<file, loadResult, router, match>>

\* the loop of lines 116-120 over the error body is over: the slots hold
\* the converted values, the slice is marshalled and written (lines 68-78)
\* and simulateError and handleRequest return
EB_Return(p) ==
    /\ pc[p] \in {"eb_convert", "eb_raced"}
    /\ IF config.ErrorResponse.Body = Undefined
         THEN /\ pc' = [pc EXCEPT ![p] = "undefined"]
              /\ UNCHANGED <<config, w>>
         ELSE /\ \E o \in convertToJSONCompatible(config.ErrorResponse.Body) :
                   /\ config' = [config EXCEPT !.ErrorResponse.Body = o.arg]
                   /\ w' = [w EXCEPT ![p] = simulateErrorBody(@, o.res)]
              /\ pc' = [pc EXCEPT ![p] = "done"]
    /\ UNCHANGED <<simState, req, responseData, jsonBytes, chunkSize, loop_i, chosenLatency>>
    /\ UNCHANGED <<file, loadResult, router, match>>

\* two goroutines were inside the loop over the error body at once: a read
\* of x[i], by the loop or by json.Marshal, may see the type word of one
\* write and the data word of another; what the goroutine then writes to its
\* client is not defined, and the slot may keep the torn value
EB_DataRace(p) ==
    /\ pc[p] = "eb_raced"
    /\ \E torn \in {Undefined, config.ErrorResponse.Body} :
         config' = [config EXCEPT !.ErrorResponse.Body = torn]
    /\ pc' = [pc EXCEPT ![p] = "undefined"]
    /\ UNCHANGED <<simState, req, w, responseData, jsonBytes, chunkSize, loop_i,
                   chosenLatency>>
    /\ UNCHANGED <<file, loadResult, router, match>>

\* ShouldError returned false: responseData := getResponseData(path, config).
\* The call is one step unless it rewrites shared slots: then the goroutine
\* enters the loop of lines 116-120, and when another goroutine is inside
\* that loop on the same slice the two race.
HR_GetResponseData(p) ==
    /\ pc[p] = "se_returned"
    /\ ~shouldError[p]
    /\ IF OverrideOf(p) = Undefined
         THEN /\ responseData' = [responseData EXCEPT ![p] = Undefined]
              /\ pc' = [pc EXCEPT ![p] = "undefined"]
              /\ UNCHANGED config
         ELSE IF RewritesShared(OverrideOf(p))
           THEN /\ pc' = [q \in Procs |->
                            IF Converting(p) = {} THEN (IF q = p THEN "gd_convert" ELSE pc[q])
                            ELSE IF q \in Converting(p) \cup {p} THEN "gd_raced"
                            ELSE pc[q]]
                /\ UNCHANGED <<responseData, config>>
           ELSE /\ \E o \in getResponseData(req[p].path, config) :
                     /\ responseData' = [responseData EXCEPT ![p] = o.data]
                     /\ config' = o.config
                /\ pc' = [pc EXCEPT ![p] = "hr_respond"]
    /\ CallOver(p)
    /\ UNCHANGED <<simulators, sim, shouldError, rateRequests, rate, calls, errorCount,
                   req, w, jsonBytes, chunkSize, loop_i, chosenLatency>>
    /\ UNCHANGED <<file, loadResult, router, match>>

\* the loop of lines 116-120 is over and getResponseData returns: the slots
\* hold the converted values, responseData is the slice or the map built
\* around it
GD_Return(p) ==
    /\ pc[p] \in {"gd_convert", "gd_raced"}
    /\ IF OverrideOf(p) = Undefined
         THEN /\ responseData' = [responseData EXCEPT ![p] = Undefined]
              /\ pc' = [pc EXCEPT ![p] = "undefined"]
              /\ UNCHANGED config
         ELSE /\ \E o \in getResponseData(req[p].path, config) :
                   /\ responseData' = [responseData EXCEPT ![p] = o.data]
                   /\ config' = o.config
              /\ pc' = [pc EXCEPT ![p] = "hr_respond"]
    /\ UNCHANGED <<simState, req, w, jsonBytes, chunkSize, loop_i, chosenLatency>>
    /\ UNCHANGED <<file, loadResult, router, match>>

\* two goroutines were inside the loop at once: a read of x[i] may see the
\* type word of one write and the data word of another, and what the
\* goroutine that uses such a value does is not defined; the slot may keep
\* the torn value
GD_DataRace(p) ==
    /\ pc[p] = "gd_raced"
    /\ responseData' = [responseData EXCEPT ![p] = Undefined]
    /\ \E torn \in {Undefined, OverrideOf(p)} :
         config' = [config EXCEPT !.Responses[TrimRight(req[p].path, "/")] = torn]
    /\ pc' = [pc EXCEPT ![p] = "undefined"]
    /\ UNCHANGED <<simState, req, w, jsonBytes, chunkSize, loop_i, chosenLatency>>
    /\ UNCHANGED <<file, loadResult, router, match>>

\* !isStreaming(r): normalResponse(w, responseData)
HR_NormalResponse(p) ==
    /\ pc[p] = "hr_respond"
    /\ ~isStreaming(req[p])
    /\ w' = [w EXCEPT ![p] = normalResponse(@, responseData[p])]
    /\ pc' = [pc EXCEPT ![p] = "done"]
    /\ UNCHANGED <<simState, config, req, responseData, jsonBytes, chunkSize, loop_i,
                   chosenLatency>>
    /\ UNCHANGED <<file, loadResult, router, match>>

(***************************************************************************)
(* streamResponse(w, responseData, config)                                 *)
(***************************************************************************)
\* mutant of SR_Begin: a Marshal failure is reported but the function does
\* not return, it goes on with the empty jsonBytes
SR_BeginNoAbort(p) ==
    /\ pc[p] = "hr_respond"
    /\ isStreaming(req[p])
    /\ LET set == SetHeader(w[p], "text/event-stream")
           m == Marshal(responseData[p])
       IN  /\ w' = [w EXCEPT ![p] = IF ~m.ok
                                      THEN HttpError(set, InternalServerError,
                                                     StatusInternalServerError)
                                      ELSE set]
           /\ jsonBytes' = [jsonBytes EXCEPT ![p] = IF m.ok THEN m.bytes ELSE <<>>]
           /\ chunkSize' = [chunkSize EXCEPT ![p] =
                              ChunkSizeOf(IF m.ok THEN Len(m.bytes) ELSE 0)]
           /\ loop_i' = [loop_i EXCEPT ![p] = 0]
           /\ pc' = [pc EXCEPT ![p] = "sr_loop"]
    /\ UNCHANGED <<simState, config, req, responseData, chosenLatency>>
    /\ UNCHANGED <<file, loadResult, router, match>>

\* lines 140-152: the header, json.Marshal, the chunk size, i := 0.
\* jsonBytes is a []byte: len(jsonBytes) and the bounds of every chunk count
\* UTF-8 bytes, so a chunk may end inside a character
SR_Begin(p) ==
    /\ pc[p] = "hr_respond"
    /\ isStreaming(req[p])
    /\ LET set == SetHeader(w[p], "text/event-stream")
           m == Marshal(responseData[p])
       IN  IF ~m.ok
             THEN /\ w' = [w EXCEPT ![p] = HttpError(set, InternalServerError,
                                                     StatusInternalServerError)]
                  /\ pc' = [pc EXCEPT ![p] = "done"]
                  /\ UNCHANGED <<jsonBytes, chunkSize, loop_i>>
             ELSE /\ w' = [w EXCEPT ![p] = set]
                  /\ jsonBytes' = [jsonBytes EXCEPT ![p] = m.bytes]
                  /\ chunkSize' = [chunkSize EXCEPT ![p] = ChunkSizeOf(Len(m.bytes))]
                  /\ loop_i' = [loop_i EXCEPT ![p] = 0]
                  /\ pc' = [pc EXCEPT ![p] = "sr_loop"]
    /\ UNCHANGED <<simState, config, req, responseData, chosenLatency>>
    /\ UNCHANGED <<file, loadResult, router, match>>

\* mutant of SR_Chunk: the frame is written but not flushed
SR_ChunkNoFlush(p) ==
    /\ pc[p] = "sr_loop"
    /\ loop_i[p] < Len(jsonBytes[p])
    /\ w' = [w EXCEPT ![p] = Write(@, Frame(jsonBytes[p], loop_i[p], chunkSize[p]))]
    /\ \E k \in 0..(LatencyDen - 1) :
         chosenLatency' = [chosenLatency EXCEPT ![p] = getLatency(config, k)]
    /\ pc' = [pc EXCEPT ![p] = "sr_sleep"]
    /\ UNCHANGED <<simState, config, req, responseData, jsonBytes, chunkSize, loop_i>>
    /\ UNCHANGED <<file, loadResult, router, match>>

\* lines 152-164: i < len(jsonBytes); the frame is written and flushed,
\* getLatency is called and the goroutine goes to sleep
SR_Chunk(p) ==
    /\ pc[p] = "sr_loop"
    /\ loop_i[p] < Len(jsonBytes[p])
    /\ w' = [w EXCEPT ![p] = Flush(Write(@, Frame(jsonBytes[p], loop_i[p], chunkSize[p])))]
    /\ \E k \in 0..(LatencyDen - 1) :
         chosenLatency' = [chosenLatency EXCEPT ![p] = getLatency(config, k)]
    /\ pc' = [pc EXCEPT ![p] = "sr_sleep"]
    /\ UNCHANGED <<simState, config, req, responseData, jsonBytes, chunkSize, loop_i>>
    /\ UNCHANGED <<file, loadResult, router, match>>

\* mutant of SR_Wake: no sleep after the last data frame
SR_WakeBetweenChunks(p) ==
    /\ pc[p] = "sr_sleep"
    /\ w' = [w EXCEPT ![p] = IF loop_i[p] + chunkSize[p] < Len(jsonBytes[p])
                               THEN Slept(@) ELSE @]
    /\ chosenLatency' = [chosenLatency EXCEPT ![p] = Rat(0, 1)]
    /\ loop_i' = [loop_i EXCEPT ![p] = @ + chunkSize[p]]
    /\ pc' = [pc EXCEPT ![p] = "sr_loop"]
    /\ UNCHANGED <<simState, config, req, responseData, jsonBytes, chunkSize>>
    /\ UNCHANGED <<file, loadResult, router, match>>

\* time.Sleep returns; i += chunkSize
SR_Wake(p) ==
    /\ pc[p] = "sr_sleep"
    /\ w' = [w EXCEPT ![p] = Slept(@)]
    /\ chosenLatency' = [chosenLatency EXCEPT ![p] = Rat(0, 1)]
    /\ loop_i' = [loop_i EXCEPT ![p] = @ + chunkSize[p]]
    /\ pc' = [pc EXCEPT ![p] = "sr_loop"]
    /\ UNCHANGED <<simState, config, req, responseData, jsonBytes, chunkSize>>
    /\ UNCHANGED <<file, loadResult, router, match>>

\* mutant of SR_Done: the termination marker is written twice
SR_DoneTwice(p) ==
    /\ pc[p] = "sr_loop"
    /\ loop_i[p] >= Len(jsonBytes[p])
    /\ w' = [w EXCEPT ![p] = Flush(Write(Flush(Write(@, DoneFrame)), DoneFrame))]
    /\ pc' = [pc EXCEPT ![p] = "done"]
    /\ UNCHANGED <<simState, config, req, responseData, jsonBytes, chunkSize, loop_i,
                   chosenLatency>>
    /\ UNCHANGED <<file, loadResult, router, match>>

\* lines 166-170: the loop is over; the termination marker is written and flushed
SR_Done(p) ==
    /\ pc[p] = "sr_loop"
    /\ loop_i[p] >= Len(jsonBytes[p])
    /\ w' = [w EXCEPT ![p] = Flush(Write(@, DoneFrame))]
    /\ pc' = [pc EXCEPT ![p] = "done"]
    /\ UNCHANGED <<simState, config, req, responseData, jsonBytes, chunkSize, loop_i,
                   chosenLatency>>
    /\ UNCHANGED <<file, loadResult, router, match>>

InitReq(cfg) ==
    /\ config = cfg
    /\ req = [p \in Procs |-> NoRequest]
    /\ w = [p \in Procs |-> NewRecorder]
    /\ responseData = [p \in Procs |-> NilV]
    /\ jsonBytes = [p \in Procs |-> <<>>]
    /\ chunkSize = [p \in Procs |-> 0]
    /\ loop_i = [p \in Procs |-> 0]
    /\ chosenLatency = [p \in Procs |-> Rat(0, 1)]

(***************************************************************************)
(* The goroutines of TestConcurrency: each calls sim.ShouldError() and     *)
(* sim.GetCurrentErrorRate() on the one shared simulator.                  *)
(***************************************************************************)
TestCallShouldError(p) ==
    /\ pc[p] \in {"idle", "se_returned", "gr_returned"}
    /\ calls[sim[p]] < MaxRequests
    /\ calls' = [calls EXCEPT ![sim[p]] = @ + 1]
    /\ pc' = [pc EXCEPT ![p] = "se_add_requests"]
    /\ NoLocals(p)
    /\ UNCHANGED <<simulators, sim, errorCount,
                   reqVars>>
    /\ UNCHANGED <<file, loadResult, router, match>>

TestCallGetCurrentErrorRate(p) ==
    /\ pc[p] \in {"idle", "se_returned", "gr_returned"}
    /\ pc' = [pc EXCEPT ![p] = "gr_load_requests"]
    /\ NoLocals(p)
    /\ UNCHANGED <<simulators, sim, calls, errorCount,
                   reqVars>>
    /\ UNCHANGED <<file, loadResult, router, match>>

\* the zero value of Config, and the state before loadConfig is called
ZeroConfig ==
    [APISpec |-> <<>>,
     Latency |-> [Low |-> 0, High |-> 0, LowFrequency |-> Rat(0, 1)],
     Responses |-> NilMapSI,
     ErrorResponse |-> [Code |-> 0, Body |-> NilV, Frequency |-> Rat(0, 1)],
     Prefix |-> <<>>]

NoResult == [config |-> NilV, err |-> <<"-">>]
\* no router is set up, no request was routed
NoMatch == [handler |-> "", template |-> <<>>, location |-> <<>>, sim |-> <<>>, method |-> <<>>, path |-> <<>>]
NotRouted == router = <<>> /\ match = [p \in Procs |-> NoMatch]
NotLoaded == file = [name |-> <<>>, readable |-> FALSE, parsable |-> FALSE, decoded |-> ZeroConfig, cause |-> <<>>] /\ loadResult = NoResult


InitSim ==
    /\ \E f \in TargetFreqs :
         simulators = [e \in RegisteredPaths |-> NewErrorSimulator(f)]
    /\ pc = [p \in Procs |-> "idle"]
    /\ sim = [p \in Procs |-> TestSim]
    /\ requests = [p \in Procs |-> 0]
    /\ currentErrors = [p \in Procs |-> 0]
    /\ draw = [p \in Procs |-> 0]
    /\ shouldError = [p \in Procs |-> FALSE]
    /\ rateRequests = [p \in Procs |-> 0]
    /\ rate = [p \in Procs |-> Rat(0, 1)]
    /\ calls = [e \in RegisteredPaths |-> 0]
    /\ errorCount = [e \in RegisteredPaths |-> 0]
    /\ InitReq(TestConfig(SimulatedErrorBody, simulators[TestSim].targetFrequency))
    /\ NotLoaded
    /\ NotRouted

NextSim ==
    \E p \in Procs :
        \/ TestCallShouldError(p)
        \/ TestCallGetCurrentErrorRate(p)
        \/ SE_AddRequests(p)
        \/ SE_LoadErrors(p)
        \/ SE_Decide(p)
        \/ GR_LoadRequests(p)
        \/ GR_LoadErrors(p)

SpecSim == InitSim /\ [][NextSim]_vars

(***************************************************************************)
(* The server: setupRouter gives every registered path a simulator of its  *)
(* own, built from config.ErrorResponse.Frequency; requests are served     *)
(* concurrently.                                                           *)
(***************************************************************************)
Init ==
    /\ \E body \in PlainErrorBodies, f \in ConfigFreqs :
         /\ InitReq(TestConfig(body, f))
         /\ simulators = [e \in RegisteredPaths |->
                            NewErrorSimulator(TestConfig(body, f).ErrorResponse.Frequency)]
    /\ pc = [p \in Procs |-> "idle"]
    /\ sim = [p \in Procs |-> TestSim]
    /\ requests = [p \in Procs |-> 0]
    /\ currentErrors = [p \in Procs |-> 0]
    /\ draw = [p \in Procs |-> 0]
    /\ shouldError = [p \in Procs |-> FALSE]
    /\ rateRequests = [p \in Procs |-> 0]
    /\ rate = [p \in Procs |-> Rat(0, 1)]
    /\ calls = [e \in RegisteredPaths |-> 0]
    /\ errorCount = [e \in RegisteredPaths |-> 0]
    /\ NotLoaded
    /\ NotRouted

Next ==
    \E p \in Procs :
        \/ HR_Begin(p)
        \/ HR_CallShouldError(p)
        \/ SE_AddRequests(p)
        \/ SE_LoadErrors(p)
        \/ SE_Decide(p)
        \/ HR_SimulateError(p)
        \/ HR_GetResponseData(p)
        \/ HR_NormalResponse(p)
        \/ SR_Begin(p)
        \/ SR_Chunk(p)
        \/ SR_Wake(p)
        \/ SR_Done(p)

Spec == Init /\ [][Next]_vars

(***************************************************************************)
(* streamResponse called directly, as its tests call it, on payloads of    *)
(* every serialized length from 1 to MaxStrLen + 2 and on values that      *)
(* json.Marshal rejects.                                                   *)
(***************************************************************************)
Letters == <<"a", "b", "c", "d", "e", "f", "g", "h", "i", "j", "k", "l", "m">>
\* strings with characters of two and three bytes: "\u00e9" is encoded in 4
\* bytes, "a\u20acb" in 7
NonASCIIPayloads == {StrV(<<"U+00E9">>), StrV(<<"a", "U+20AC", "b">>)}
StreamPayloads ==
    {StrV(SubSeq(Letters, 1, n)) : n \in 0..MaxStrLen}
    \cup NonASCIIPayloads \cup {IntV(7), Chan, PosInf}

InitStream ==
    /\ config = TestConfig(SimulatedErrorBody, Rat(0, 1))
    /\ simulators = [e \in RegisteredPaths |-> NewErrorSimulator(Rat(0, 1))]
    /\ \E p0 \in Procs, data \in StreamPayloads :
         /\ pc = [p \in Procs |-> IF p = p0 THEN "hr_respond" ELSE "idle"]
         /\ req = [p \in Procs |-> IF p = p0 THEN [path |-> PathTest, stream |-> "true"]
                                              ELSE NoRequest]
         /\ responseData = [p \in Procs |-> IF p = p0 THEN data ELSE NilV]
    /\ w = [p \in Procs |-> NewRecorder]
    /\ jsonBytes = [p \in Procs |-> <<>>]
    /\ chunkSize = [p \in Procs |-> 0]
    /\ loop_i = [p \in Procs |-> 0]
    /\ chosenLatency = [p \in Procs |-> Rat(0, 1)]
    /\ sim = [p \in Procs |-> TestSim]
    /\ requests = [p \in Procs |-> 0]
    /\ currentErrors = [p \in Procs |-> 0]
    /\ draw = [p \in Procs |-> 0]
    /\ shouldError = [p \in Procs |-> FALSE]
    /\ rateRequests = [p \in Procs |-> 0]
    /\ rate = [p \in Procs |-> Rat(0, 1)]
    /\ calls = [e \in RegisteredPaths |-> 0]
    /\ errorCount = [e \in RegisteredPaths |-> 0]
    /\ NotLoaded
    /\ NotRouted

NextStream ==
    \E p \in Procs :
        \/ SR_Begin(p)
        \/ SR_Chunk(p)
        \/ SR_Wake(p)
        \/ SR_Done(p)

SpecStream == InitStream /\ [][NextStream]_vars

(***************************************************************************)
(* handleRequest called directly, as the handler tests call it: one        *)
(* request on a recorder, any path, a simulator of its own, and a          *)
(* configuration whose latency range, override table and error policy      *)
(* vary.                                                                   *)
(***************************************************************************)
MakeConfig(low, high, responses, code, body, frequency) ==
    [Latency |-> [Low |-> Rat(low, 1), High |-> Rat(high, 1)],
     Responses |-> responses,
     ErrorResponse |-> [Code |-> code, Body |-> body, Frequency |-> frequency]]

\* the raw-text overrides: documents of every JSON type, and malformed ones
RawObject == StrV(<<"{", "\"", "c", "u", "s", "t", "o", "m", "\"", ":", "\"", "d", "a", "t", "a", "\"", ",", "\"", "v", "a", "l", "u", "e", "\"", ":", "1", "2", "3", "}">>)
RawNested == StrV(<<" ", "{", "\"", "a", "\"", ":", "[", "-", "0", ",", "1", ".", "5", "e", "1", ",", "0", ".", "2", "5", ",", "{", "\"", "b", "\"", ":", "n", "u", "l", "l", "}", "]", ",", "\"", "c", "\"", ":", "\"", "d", "\\", "f", "\\", "b", "\"", "}", " ">>)
RawArray == StrV(<<"[", "1", ",", "2", "]">>)
RawString == StrV(<<"\"", "t", "e", "x", "t", "\"">>)
RawNumber == StrV(<<"1", "2", "3">>)
RawTrue == StrV(<<"t", "r", "u", "e">>)
RawNull == StrV(<<"n", "u", "l", "l">>)
RawMalformed == StrV(<<"{", "\"", "m", "e", "s", "s", "a", "g", "e", "\"", ":", "}">>)
RawTrailing == StrV(<<"{", "\"", "a", "\"", ":", "1", "}", "x">>)
RawEmpty == StrV(<<>>)
WellFormedTexts == {RawObject, RawNested, RawArray, RawString, RawNumber, RawTrue, RawNull}
MalformedTexts == {RawMalformed, RawTrailing, RawEmpty}

\* the structured overrides: what the YAML loader builds (maps keyed by
\* interface{}, slices, scalars) and the flat typed maps the tests install
StructFlat == TestResponses[PathStruct]
StructNested ==
    MapII(<<Entry(IntV(1), StrV(<<"o", "n", "e">>)),
            Entry(PosInf, FloatE(5, -1)),
            Entry(BoolV(TRUE), SliceV(<<MapII(<<Entry(IntV(2), NilV)>>),
                                        StrV(<<"x">>), IntV(3)>>))>>)
StructSlice == SliceV(<<IntV(2), IntV(1), MapII(<<Entry(IntV(5), BoolV(FALSE))>>)>>)
StructTyped == MapSS(<<Entry(StrV(<<"m", "e", "s", "s", "a", "g", "e">>), StrV(<<"o", "v", "e", "r", "r", "i", "d", "e">>))>>)
StructInf == MapII(<<Entry(StrV(<<"x">>), PosInf)>>)
StructuredOverrides ==
    {StructFlat, StructNested, StructSlice, StructTyped,
     IntV(7), BoolV(TRUE), NilV, StructInf, PosInf}

OverrideTables ==
    {(PathTest :> v) : v \in WellFormedTexts \cup MalformedTexts \cup StructuredOverrides}
    \cup {(PathTest \o <<"/">>) :> RawObject}

HandlerPaths ==
    {PathTest, PathTest \o <<"/">>, PathTest \o <<"/", "/">>,
     PathUnknown, PathUnknown \o <<"/">>, <<"/">>}

LatencyRanges == {<<10, 20>>, <<0, 0>>, <<7, 7>>, <<0, 3>>}
ErrorCodes == {500, 503}

HandlerConfigs ==
    {MakeConfig(10, 20, t, 500, SimulatedErrorBody, Rat(0, 1)) : t \in OverrideTables}
    \cup {MakeConfig(r[1], r[2], TestResponses, 500, SimulatedErrorBody, f)
            : r \in LatencyRanges, f \in {Rat(0, 1), Rat(1, 1)}}
    \cup {MakeConfig(10, 20, TestResponses, c, b, Rat(1, 1))
            : c \in ErrorCodes, b \in ErrorBodies}

\* handleRequest(w, req, path, config, errorSim): chosenLatency :=
\* getLatency(config); the goroutine goes to sleep
HT_Begin(p) ==
    /\ \A q \in Procs : pc[q] = "idle"
    /\ \E path \in HandlerPaths, stream \in StreamParams, k \in 0..(LatencyDen - 1) :
         /\ req' = [req EXCEPT ![p] = [path |-> path, stream |-> stream]]
         /\ chosenLatency' = [chosenLatency EXCEPT ![p] = getLatency(config, k)]
    /\ sim' = [sim EXCEPT ![p] = TestSim]
    /\ w' = [w EXCEPT ![p] = NewRecorder]
    /\ NoResponse(p)
    /\ NoLocals(p)
    /\ pc' = [pc EXCEPT ![p] = "hr_sleep"]
    /\ UNCHANGED <<simulators, calls, errorCount, config>>
    /\ UNCHANGED <<file, loadResult, router, match>>

InitHandler ==
    /\ \E cfg \in HandlerConfigs :
         /\ InitReq(cfg)
         /\ simulators = [e \in RegisteredPaths |->
                            NewErrorSimulator(cfg.ErrorResponse.Frequency)]
    /\ pc = [p \in Procs |-> "idle"]
    /\ sim = [p \in Procs |-> TestSim]
    /\ requests = [p \in Procs |-> 0]
    /\ currentErrors = [p \in Procs |-> 0]
    /\ draw = [p \in Procs |-> 0]
    /\ shouldError = [p \in Procs |-> FALSE]
    /\ rateRequests = [p \in Procs |-> 0]
    /\ rate = [p \in Procs |-> Rat(0, 1)]
    /\ calls = [e \in RegisteredPaths |-> 0]
    /\ errorCount = [e \in RegisteredPaths |-> 0]
    /\ NotLoaded
    /\ NotRouted

NextHandler ==
    \E p \in Procs :
        \/ HT_Begin(p)
        \/ HR_CallShouldError(p)
        \/ SE_AddRequests(p)
        \/ SE_LoadErrors(p)
        \/ SE_Decide(p)
        \/ HR_SimulateError(p)
        \/ EB_Return(p)
        \/ HR_GetResponseData(p)
        \/ GD_Return(p)
        \/ HR_NormalResponse(p)
        \/ SR_Begin(p)
        \/ SR_Chunk(p)
        \/ SR_Wake(p)
        \/ SR_Done(p)

SpecHandler == InitHandler /\ [][NextHandler]_vars

\* the places of a goroutine inside handleRequest
DispatchLocations ==
    {"hr_sleep", "se_add_requests", "se_load_errors", "se_decide", "se_returned",
     "eb_convert", "eb_raced", "gd_convert", "gd_raced", "hr_respond", "sr_loop",
     "sr_sleep"}

\* goroutine p, inside handleRequest, moves on to its next statement or returns
DispatchMoves(p) ==
    /\ pc[p] \in DispatchLocations
    /\ \E l \in (DispatchLocations \cup {"done"}) \ {pc[p]} :
         pc' = [pc EXCEPT ![p] = l]

\* the goroutine of a request keeps being scheduled and its sleeps end; when
\* a request arrives is up to the client
SpecHandlerFair ==
    /\ InitHandler
    /\ [][NextHandler]_vars
    /\ \A p \in Procs : WF_pc(DispatchMoves(p))

(***************************************************************************)
(* The same requests on a connection that may break at any point of the   *)
(* dispatch: from then on every w.Write returns an error.                  *)
(***************************************************************************)
SinkFails(p) ==
    /\ pc[p] \notin {"idle", "done"}
    /\ WriteOk(w[p])
    /\ w' = [w EXCEPT ![p] = Break(@)]
    /\ UNCHANGED <<pc, simState, config, req, responseData, jsonBytes, chunkSize, loop_i,
                   chosenLatency>>
    /\ UNCHANGED <<file, loadResult, router, match>>

NextSink ==
    \/ NextHandler
    \/ \E p \in Procs : SinkFails(p)

SpecSink == InitHandler /\ [][NextSink]_vars

(***************************************************************************)
(* loadConfig and checkMissingConfig: src/unnamed/part_006.  A file is     *)
(* given by whether os.ReadFile and yaml.Unmarshal succeed on it and by    *)
(* the Config that yaml.Unmarshal fills: a key the document lacks leaves   *)
(* the zero value of its field.                                            *)
(***************************************************************************)
\* unicode.IsSpace(r): the code points with the White_Space property
UnicodeSpace ==
    {" ", "\t", "\n", "\r", "\f", "U+000B", "U+0085", "U+00A0", "U+1680",
     "U+2000", "U+2001", "U+2002", "U+2003", "U+2004", "U+2005", "U+2006",
     "U+2007", "U+2008", "U+2009", "U+200A", "U+2028", "U+2029", "U+202F",
     "U+205F", "U+3000"}

\* strings.TrimSpace(s)
RECURSIVE TrimSpace(_)
TrimSpace(s) ==
    IF s = <<>> THEN s
    ELSE IF Head(s) \in UnicodeSpace THEN TrimSpace(Tail(s))
    ELSE IF s[Len(s)] \in UnicodeSpace THEN TrimSpace(SubSeq(s, 1, Len(s) - 1))
    ELSE s

\* strings.Contains(s, substr)
Contains(s, substr) ==
    \E j \in 0..(Len(s) - Len(substr)) : SubSeq(s, j + 1, j + Len(substr)) = substr

\* the names checkMissingConfig appends to missing
Field ==
    [api_spec |-> <<"a", "p", "i", "_", "s", "p", "e", "c">>,
     low |-> <<"l", "a", "t", "e", "n", "c", "y", ".", "l", "o", "w">>,
     high |-> <<"l", "a", "t", "e", "n", "c", "y", ".", "h", "i", "g", "h">>,
     low_frequency |-> <<"l", "a", "t", "e", "n", "c", "y", ".", "l", "o", "w", "_", "f", "r", "e", "q", "u", "e", "n", "c", "y">>,
     frequency |-> <<"e", "r", "r", "o", "r", "_", "r", "e", "s", "p", "o", "n", "s", "e", ".", "f", "r", "e", "q", "u", "e", "n", "c", "y">>,
     code |-> <<"e", "r", "r", "o", "r", "_", "r", "e", "s", "p", "o", "n", "s", "e", ".", "c", "o", "d", "e">>,
     body |-> <<"e", "r", "r", "o", "r", "_", "r", "e", "s", "p", "o", "n", "s", "e", ".", "b", "o", "d", "y">>,
     prefix |-> <<"p", "r", "e", "f", "i", "x">>]

\* the condition of each if statement of checkMissingConfig, in order
MissingChecks(cfg) ==
    << <<TrimSpace(cfg.APISpec) = <<>>, Field.api_spec>>,
       <<cfg.Latency.Low = 0, Field.low>>,
       <<cfg.Latency.High = 0, Field.high>>,
       <<RatEq(cfg.Latency.LowFrequency, Rat(0, 1)), Field.low_frequency>>,
       <<RatEq(cfg.ErrorResponse.Frequency, Rat(0, 1)), Field.frequency>>,
       <<cfg.ErrorResponse.Code = 0, Field.code>>,
       <<cfg.ErrorResponse.Body = NilV, Field.body>>,
       <<TrimSpace(cfg.Prefix) = <<>>, Field.prefix>> >>

\* mutant of checkMissingConfig: the check of error_response.code left out
checkMissingConfigNoCode(cfg) ==
    LET checks == MissingChecks(cfg)
        Collect[n \in 0..Len(checks)] ==
            IF n = 0 THEN <<>>
            ELSE IF checks[n][1] /\ checks[n][2] # Field.code
                   THEN Append(Collect[n - 1], checks[n][2])
                   ELSE Collect[n - 1]
    IN  Collect[Len(checks)]

\* checkMissingConfig(config): the names appended to missing
checkMissingConfig(cfg) ==
    LET checks == MissingChecks(cfg)
        Collect[n \in 0..Len(checks)] ==
            IF n = 0 THEN <<>>
            ELSE IF checks[n][1] THEN Append(Collect[n - 1], checks[n][2])
                                 ELSE Collect[n - 1]
    IN  Collect[Len(checks)]

\* loadConfig(filename): the pair (*Config, error) returned; the nil error
\* is the empty message.  The error of os.ReadFile is an *fs.PathError,
\* printed "open <filename>: <cause>"
loadConfig(f) ==
    IF ~f.readable
      THEN [config |-> NilV, err |-> <<"e", "r", "r", "o", "r", " ", "r", "e", "a", "d", "i", "n", "g", " ", "c", "o", "n", "f", "i", "g", " ", "f", "i", "l", "e", ":", " ">>
                                  \o <<"o", "p", "e", "n", " ">> \o f.name \o <<":", " ">> \o f.cause]
    ELSE IF ~f.parsable
      THEN [config |-> NilV, err |-> <<"e", "r", "r", "o", "r", " ", "p", "a", "r", "s", "i", "n", "g", " ", "c", "o", "n", "f", "i", "g", " ", "f", "i", "l", "e", ":", " ">> \o f.cause]
    ELSE LET missing == checkMissingConfig(f.decoded)
         IN  IF Len(missing) > 0
               THEN [config |-> NilV, err |-> <<"m", "i", "s", "s", "i", "n", "g", " ", "r", "e", "q", "u", "i", "r", "e", "d", " ", "c", "o", "n", "f", "i", "g", "u", "r", "a", "t", "i", "o", "n", " ", "v", "a", "l", "u", "e", "s", ":", " ">> \o Join(missing, <<",", " ">>)]
               ELSE [config |-> IF f.decoded.Responses = NilMapSI
                                  THEN [f.decoded EXCEPT !.Responses = MapSI(<<>>)]
                                  ELSE f.decoded,
                     err |-> <<>>]

\* what yaml.Unmarshal decodes: every combination of given, absent and
\* out-of-range values of the fields
DecodedConfigs ==
    {[APISpec |-> a,
      Latency |-> [Low |-> l, High |-> h, LowFrequency |-> lf],
      Responses |-> r,
      ErrorResponse |-> [Code |-> c, Body |-> b, Frequency |-> fr],
      Prefix |-> px]
       : a \in {<<>>, <<" ", "\f">>, <<"s", "p", "e", "c", ".", "y", "a", "m", "l">>}, l \in {-5, 0, 100}, h \in {0, 50, 1000}, lf \in {Rat(0, 1), Rat(1, 2)},
         r \in {NilMapSI, MapSI(<<Entry(StrV(PathTest), RawObject)>>)}, c \in {-1, 0, 500}, b \in {NilV, SimulatedErrorBody}, fr \in {Rat(0, 1), Rat(1, 20), Rat(3, 2)},
         px \in {<<>>, <<"U+00A0">>, <<"v", "1">>}}

\* the files: the decoded documents, a file that cannot be read and a file
\* that is not YAML
Files ==
    {[name |-> <<"c", "o", "n", "f", "i", "g", ".", "y", "a", "m", "l">>, readable |-> TRUE, parsable |-> TRUE, decoded |-> c, cause |-> <<>>]
        : c \in DecodedConfigs}
    \cup {[name |-> <<"n", "o", "n", "_", "e", "x", "i", "s", "t", "e", "n", "t", "_", "c", "o", "n", "f", "i", "g", ".", "y", "a", "m", "l">>,
           readable |-> FALSE, parsable |-> FALSE, decoded |-> ZeroConfig,
           cause |-> <<"n", "o", " ", "s", "u", "c", "h", " ", "f", "i", "l", "e", " ", "o", "r", " ", "d", "i", "r", "e", "c", "t", "o", "r", "y">>],
          [name |-> <<"c", "o", "n", "f", "i", "g", ".", "y", "a", "m", "l">>,
           readable |-> TRUE, parsable |-> FALSE, decoded |-> ZeroConfig,
           cause |-> <<"y", "a", "m", "l", ":", " ", "m", "a", "p", "p", "i", "n", "g", " ", "v", "a", "l", "u", "e", "s", " ", "a", "r", "e", " ", "n", "o", "t", " ", "a", "l", "l", "o", "w", "e", "d", " ", "i", "n", " ", "t", "h", "i", "s", " ", "c", "o", "n", "t", "e", "x", "t">>]}

\* config, err := loadConfig(*configFile)
LoadConfig ==
    /\ loadResult = NoResult
    /\ loadResult' = loadConfig(file)
    /\ UNCHANGED <<simVars, reqVars, file, router, match>>

\* main before loadConfig: any file, no request handled
InitConfig ==
    /\ file \in Files
    /\ loadResult = NoResult
    /\ NotRouted
    /\ simulators = [e \in RegisteredPaths |-> NewErrorSimulator(Rat(0, 1))]
    /\ InitReq(TestConfig(SimulatedErrorBody, Rat(0, 1)))
    /\ pc = [p \in Procs |-> "idle"]
    /\ sim = [p \in Procs |-> TestSim]
    /\ requests = [p \in Procs |-> 0]
    /\ currentErrors = [p \in Procs |-> 0]
    /\ draw = [p \in Procs |-> 0]
    /\ shouldError = [p \in Procs |-> FALSE]
    /\ rateRequests = [p \in Procs |-> 0]
    /\ rate = [p \in Procs |-> Rat(0, 1)]
    /\ calls = [e \in RegisteredPaths |-> 0]
    /\ errorCount = [e \in RegisteredPaths |-> 0]

NextConfig == LoadConfig

SpecConfig == InitConfig /\ [][NextConfig]_vars

(***************************************************************************)
(* Two requests for one path are past ShouldError, which returned the     *)
(* same to both: each resolves its response from the one configuration,    *)
(* or each writes the one configured error body.                           *)
(***************************************************************************)
\* a YAML mapping with the keys 1 and "1": two keys of
\* map[interface{}]interface{}, one string under fmt.Sprintf("%v", k)
StructColliding ==
    MapII(<<Entry(IntV(1), StrV(<<"i", "n", "t">>)),
            Entry(StrV(<<"1">>), StrV(<<"s", "t", "r">>))>>)

ResolveConfigs ==
    {MakeConfig(10, 20, t, 500, SimulatedErrorBody, Rat(0, 1))
        : t \in OverrideTables \cup {PathTest :> StructColliding}}
    \cup {MakeConfig(10, 20, TestResponses, 500, b, Rat(1, 1)) : b \in ErrorBodies}

InitResolve ==
    /\ \E cfg \in ResolveConfigs :
         /\ config = cfg
         /\ shouldError = [p \in Procs |-> RatEq(cfg.ErrorResponse.Frequency, Rat(1, 1))]
         /\ simulators = [e \in RegisteredPaths |->
                            NewErrorSimulator(cfg.ErrorResponse.Frequency)]
    /\ \E path \in HandlerPaths :
         req = [p \in Procs |-> [path |-> path, stream |-> ""]]
    /\ pc = [p \in Procs |-> "se_returned"]
    /\ w = [p \in Procs |-> Slept(NewRecorder)]
    /\ responseData = [p \in Procs |-> NilV]
    /\ jsonBytes = [p \in Procs |-> <<>>]
    /\ chunkSize = [p \in Procs |-> 0]
    /\ loop_i = [p \in Procs |-> 0]
    /\ chosenLatency = [p \in Procs |-> Rat(0, 1)]
    /\ sim = [p \in Procs |-> TestSim]
    /\ requests = [p \in Procs |-> 0]
    /\ currentErrors = [p \in Procs |-> 0]
    /\ draw = [p \in Procs |-> 0]
    /\ rateRequests = [p \in Procs |-> 0]
    /\ rate = [p \in Procs |-> Rat(0, 1)]
    /\ calls = [e \in RegisteredPaths |-> 0]
    /\ errorCount = [e \in RegisteredPaths |-> 0]
    /\ NotLoaded
    /\ NotRouted

NextResolve ==
    \E p \in Procs :
        \/ HR_GetResponseData(p)
        \/ GD_Return(p)
        \/ GD_DataRace(p)
        \/ HR_SimulateError(p)
        \/ EB_Return(p)
        \/ EB_DataRace(p)

SpecResolve == InitResolve /\ [][NextResolve]_vars

(***************************************************************************)
(* The router: src/main.go, lines 39-91, on gorilla/mux.  A route is a     *)
(* path template with the method it accepts, its handler and the key of    *)
(* spec.Paths whose simulator the handler holds.  Templates have no        *)
(* variables.                                                              *)
(***************************************************************************)
\* strings.TrimLeft(s, "/")
RECURSIVE TrimLeft(_, _)
TrimLeft(s, c) == IF s # <<>> /\ Head(s) = c THEN TrimLeft(Tail(s), c) ELSE s

\* strings.ToUpper(s), on ASCII
ToUpper(s) ==
    LET lower == <<"a", "b", "c", "d", "e", "f", "g", "h", "i", "j", "k", "l", "m", "n", "o", "p", "q", "r", "s", "t", "u", "v", "w", "x", "y", "z">>
        upper == <<"A", "B", "C", "D", "E", "F", "G", "H", "I", "J", "K", "L", "M", "N", "O", "P", "Q", "R", "S", "T", "U", "V", "W", "X", "Y", "Z">>
    IN  [j \in 1..Len(s) |->
           IF \E k \in 1..Len(lower) : lower[k] = s[j]
             THEN upper[CHOOSE k \in 1..Len(lower) : lower[k] = s[j]]
             ELSE s[j]]

\* buildFullPath(prefix, path)
buildFullPath(prefix, path) ==
    LET trimmedPrefix == TrimRight(TrimLeft(prefix, "/"), "/")
        trimmedPath == TrimLeft(path, "/")
    IN  <<"/">> \o trimmedPrefix \o <<"/">> \o trimmedPath

StatusMethodNotAllowed == 405
StatusNotFound == 404
MethodNotAllowed == <<"M", "e", "t", "h", "o", "d", " ", "n", "o", "t", " ", "a", "l", "l", "o", "w", "e", "d">>
NotFound == <<"N", "o", "t", " ", "f", "o", "u", "n", "d">>

\* the orders in which a range statement can visit the keys of a map
Orders(keys) ==
    {o \in [1..Cardinality(keys) -> keys] : \A k \in keys : \E i \in DOMAIN o : o[i] = k}

\* registerMethodHandlers(router, fullPath, methods, config): one route for
\* each method, in the order the range statement visits them
registerMethodHandlers(fullPath, path, methodOrder) ==
    [i \in 1..Len(methodOrder) |->
       [template |-> fullPath, methods |-> {ToUpper(methodOrder[i])},
        any |-> FALSE, handler |-> "handleRequest", sim |-> path]]

\* registerMethodNotAllowedHandler(router, fullPath): a route for every method
registerMethodNotAllowedHandler(fullPath, path) ==
    <<[template |-> fullPath, methods |-> {}, any |-> TRUE,
       handler |-> "methodNotAllowed", sim |-> path]>>

\* setupRouter(config, spec): the routes in registration order, order giving
\* the order in which spec.Paths and the methods of each path were visited
setupRouter(cfg, spec, order) ==
    LET Routes[n \in 0..Len(order.paths)] ==
          IF n = 0 THEN <<>>
          ELSE LET path == order.paths[n]
                   fullPath == buildFullPath(cfg.Prefix, path)
               IN  Routes[n - 1]
                     \o registerMethodHandlers(fullPath, path, order.methods[path])
                     \o registerMethodNotAllowedHandler(fullPath, path)
    IN  Routes[Len(order.paths)]

\* the full paths registered
Templates(rt) == {rt[i].template : i \in DOMAIN rt}

\* strings.Split(s, "/")
RECURSIVE Split(_, _)
Split(s, c) ==
    IF \A i \in DOMAIN s : s[i] # c THEN <<s>>
    ELSE LET i == CHOOSE j \in DOMAIN s : s[j] = c /\ \A k \in 1..(j - 1) : s[k] # c
         IN  <<SubSeq(s, 1, i - 1)>> \o Split(SubSeq(s, i + 1, Len(s)), c)

\* path.Clean(p): empty and . elements are dropped, a .. element removes
\* the element before it, at the root it is dropped and at the start of a
\* path that is not rooted it is kept; the empty result is .
Clean(p) ==
    LET rooted == p # <<>> /\ p[1] = "/"
        segs == Split(p, "/")
        Keep[n \in 0..Len(segs)] ==
          IF n = 0 THEN <<>>
          ELSE IF segs[n] \in {<<>>, <<".">>} THEN Keep[n - 1]
          ELSE IF segs[n] # <<".", ".">> THEN Append(Keep[n - 1], segs[n])
          ELSE IF Keep[n - 1] # <<>> /\ Keep[n - 1][Len(Keep[n - 1])] # <<".", ".">>
            THEN SubSeq(Keep[n - 1], 1, Len(Keep[n - 1]) - 1)
          ELSE IF rooted THEN Keep[n - 1]
          ELSE Append(Keep[n - 1], segs[n])
        out == Join(Keep[Len(segs)], <<"/">>)
    IN  IF rooted THEN <<"/">> \o out
        ELSE IF out = <<>> THEN <<".">>
        ELSE out

\* mux cleanPath(p): the rooted clean path, a trailing slash kept
cleanPath(path) ==
    IF path = <<>> THEN <<"/">>
    ELSE LET p == IF path[1] # "/" THEN <<"/">> \o path ELSE path
             np == Clean(p)
         IN  IF p[Len(p)] = "/" /\ np # <<"/">> THEN np \o <<"/">> ELSE np

\* the regexp of a route under StrictSlash(true): the template without its
\* trailing slash, followed by an optional slash
PathMatches(template, path) ==
    LET base == IF template # <<>> /\ template[Len(template)] = "/"
                  THEN SubSeq(template, 1, Len(template) - 1) ELSE template
    IN  path = base \/ path = base \o <<"/">>

\* the query of the request URL
RawQuery(stream) ==
    CASE stream = "true" -> <<"?", "s", "t", "r", "e", "a", "m", "=", "t", "r", "u", "e">>
      [] stream = "false" -> <<"?", "s", "t", "r", "e", "a", "m", "=", "f", "a", "l", "s", "e">>
      [] OTHER -> <<>>

\* net/url shouldEscape(c, encodePath) is false: the characters a path
\* keeps as they are
PathChars ==
    {"a", "b", "c", "d", "e", "f", "g", "h", "i", "j", "k", "l", "m", "n", "o", "p", "q",
     "r", "s", "t", "u", "v", "w", "x", "y", "z", "A", "B", "C", "D", "E", "F", "G", "H",
     "I", "J", "K", "L", "M", "N", "O", "P", "Q", "R", "S", "T", "U", "V", "W", "X", "Y", "Z",
     "0", "1", "2", "3", "4", "5", "6", "7", "8", "9",
     "-", "_", ".", "~", "$", "&", "+", ",", "/", ":", ";", "=", "@"}

\* the bytes bs written as %XX with the digits of hex
RECURSIVE PercentHex(_, _)
PercentHex(bs, hex) ==
    IF bs = <<>> THEN <<>>
    ELSE <<"%", hex[(Head(bs) \div 16) + 1], hex[(Head(bs) % 16) + 1]>>
           \o PercentHex(Tail(bs), hex)

\* URL.EscapedPath() of a URL without RawPath: every byte outside PathChars
\* is written %XX; the path * alone is kept
RECURSIVE escapeFrom(_, _)
escapeFrom(s, i) ==
    IF i > Len(s) THEN <<>>
    ELSE (IF s[i] \in PathChars THEN <<s[i]>>
          ELSE PercentHex(Utf8(Code(s[i])), UpperHex)) \o escapeFrom(s, i + 1)

escape(s) == escapeFrom(s, 1)

EscapedPath(path) == IF path = <<"*">> THEN path ELSE escape(path)

\* URL.String() of a request URL with this path and query
URLString(path, stream) ==
    LET escaped == EscapedPath(path)
        segment == Split(escaped, "/")[1]
    IN  (IF escaped # <<>> /\ escaped[1] # "/" /\ \E i \in DOMAIN segment : segment[i] = ":"
           THEN <<".", "/">> ELSE <<>>) \o escaped \o RawQuery(stream)

\* Router.Match from route i on: the first route whose path regexp and
\* method matcher both accept the request is the match; a route whose
\* regexp accepts the path and whose method matcher rejects the method
\* leaves ErrMethodMismatch behind (mismatch).  The match of a route whose
\* template and the path differ in their trailing slash is a redirect to
\* the URL location (routeRegexpGroup.setMatch).  When no route matches, NotFoundHandler
\* serves the request, or after a method mismatch the 405 of mux.
RECURSIVE MatchFrom(_, _, _, _, _, _)
MatchFrom(rt, i, method, path, stream, mismatch) ==
    IF i > Len(rt)
      THEN [handler |-> IF mismatch THEN "muxMethodNotAllowed" ELSE "notFound",
            template |-> <<>>, location |-> <<>>, sim |-> <<>>]
    ELSE IF ~PathMatches(rt[i].template, path)
      THEN MatchFrom(rt, i + 1, method, path, stream, mismatch)
    ELSE IF ~rt[i].any /\ method \notin rt[i].methods
      THEN MatchFrom(rt, i + 1, method, path, stream, TRUE)
    ELSE LET p1 == path[Len(path)] = "/"
             p2 == rt[i].template[Len(rt[i].template)] = "/"
         IN  IF p1 # p2
               THEN [handler |-> "redirect", template |-> rt[i].template,
                     location |-> URLString(IF p1 THEN SubSeq(path, 1, Len(path) - 1)
                                                  ELSE path \o <<"/">>, stream),
                     sim |-> rt[i].sim]
               ELSE [handler |-> rt[i].handler, template |-> rt[i].template,
                     location |-> <<>>, sim |-> rt[i].sim]

Match(rt, method, path, stream) == MatchFrom(rt, 1, method, path, stream, FALSE)

\* the index of the first c in s, 0 when there is none
IndexOf(s, c) ==
    IF \E i \in DOMAIN s : s[i] = c
      THEN CHOOSE i \in DOMAIN s : s[i] = c /\ \A k \in 1..(i - 1) : s[k] # c
      ELSE 0

\* strings.Cut(s, c): the parts before and after the first c, and s from
\* the first c on
CutAt(s, i) == IF i = 0 THEN s ELSE SubSeq(s, 1, i - 1)
Before(s, c) == CutAt(s, IndexOf(s, c))
From(s, i) == IF i = 0 THEN <<>> ELSE SubSeq(s, i, Len(s))
After(s, c) == Tail(From(s, IndexOf(s, c)) \o <<c>>)

\* a % that is not followed by two hexadecimal digits (url.EscapeError)
BadEscape(s) ==
    \E i \in DOMAIN s :
        s[i] = "%" /\ ~(i + 2 <= Len(s) /\ IsHex(s[i + 1]) /\ IsHex(s[i + 2]))

SchemeLetters ==
    {"a", "b", "c", "d", "e", "f", "g", "h", "i", "j", "k", "l", "m", "n", "o", "p", "q",
     "r", "s", "t", "u", "v", "w", "x", "y", "z", "A", "B", "C", "D", "E", "F", "G", "H",
     "I", "J", "K", "L", "M", "N", "O", "P", "Q", "R", "S", "T", "U", "V", "W", "X", "Y", "Z"}
SchemeOthers == {"0", "1", "2", "3", "4", "5", "6", "7", "8", "9", "+", "-", "."}

\* net/url getScheme: "some" for a scheme before the first colon, "none",
\* or "error" for a colon at the start
getScheme(rawURL) ==
    IF \A i \in DOMAIN rawURL : rawURL[i] \in SchemeLetters \cup SchemeOthers THEN "none"
    ELSE IF rawURL[1] \in SchemeOthers THEN "none"
    ELSE IF rawURL[1] = ":" THEN "error"
    ELSE IF \E i \in DOMAIN rawURL :
              /\ rawURL[i] = ":"
              /\ \A k \in 1..(i - 1) : rawURL[k] \in SchemeLetters \cup SchemeOthers
      THEN "some"
    ELSE "none"

\* net/url validUserinfo
UserinfoChars ==
    SchemeLetters \cup SchemeOthers
      \cup {"_", ":", "~", "!", "$", "&", "'", "(", ")", "*", ",", ";", "=", "%", "@"}

\* parseAuthority(authority) succeeds with an empty host: nothing follows
\* the last @, and what precedes it is a valid userinfo
HostlessAuthority(authority) ==
    \/ authority = <<>>
    \/ /\ authority[Len(authority)] = "@"
       /\ \A i \in 1..(Len(authority) - 1) : authority[i] \in UserinfoChars
       /\ ~BadEscape(SubSeq(authority, 1, Len(authority) - 1))

\* rest, the URL without fragment and query, has neither a host nor an
\* error: after // an authority without host, otherwise no colon in the
\* first segment of a path that is not rooted
RestRelative(rest, authority) ==
    IF Len(rest) >= 2 /\ rest[1] = "/" /\ rest[2] = "/" /\ ~(Len(rest) >= 3 /\ rest[3] = "/")
      THEN /\ HostlessAuthority(authority)
           /\ ~BadEscape(SubSeq(rest, 3 + Len(authority), Len(rest)))
      ELSE /\ \/ rest # <<>> /\ rest[1] = "/"
              \/ IndexOf(Before(rest, "/"), ":") = 0
           /\ ~BadEscape(rest)

\* u, the URL without fragment, parses without scheme and host
ParsesRelative(u, rest) ==
    /\ \A i \in DOMAIN u : ~IsControl(u[i]) /\ u[i] # "U+007F"
    /\ \/ u = <<"*">>
       \/ /\ getScheme(u) = "none"
          /\ \E authority \in {Before(SubSeq(rest, 3, Len(rest)), "/")} :
                RestRelative(rest, authority)

\* url.Parse(url) succeeds and finds neither a scheme nor a host
IsRelative(url) ==
    /\ ~BadEscape(After(url, "#"))
    /\ \E u \in {Before(url, "#")} : \E rest \in {Before(u, "?")} : ParsesRelative(u, rest)

\* path.Split(p): the directory, up to the last slash
RECURSIVE Dir(_)
Dir(p) == IF p = <<>> \/ p[Len(p)] = "/" THEN p ELSE Dir(SubSeq(p, 1, Len(p) - 1))

\* path.Clean(p) with the trailing slash of p kept
CleanKeepingSlash(p, cleaned) ==
    IF p # <<>> /\ p[Len(p)] = "/" /\ cleaned[Len(cleaned)] # "/"
      THEN cleaned \o <<"/">> ELSE cleaned

\* the url http.Redirect sends: a url without scheme and host is made
\* absolute from the directory of the request path and cleaned, a trailing
\* slash and the query kept
CleanURL(url) ==
    (CHOOSE c \in {CleanKeepingSlash(p, Clean(p)) : p \in {Before(url, "?")}} : TRUE)
      \o From(url, IndexOf(url, "?"))

RedirectURL(r, url) ==
    IF ~IsRelative(url) THEN url
    ELSE IF url # <<>> /\ url[1] = "/" THEN CleanURL(url)
    ELSE CleanURL(Dir(IF r.path = <<>> THEN <<"/">> ELSE r.path) \o url)

\* hexEscapeNonASCII(s): the bytes from 0x80 on written %xx
RECURSIVE hexEscapeFrom(_, _)
hexEscapeFrom(s, i) ==
    IF i > Len(s) THEN <<>>
    ELSE (IF Code(s[i]) < 128 THEN <<s[i]>>
          ELSE PercentHex(Utf8(Code(s[i])), LowerHex)) \o hexEscapeFrom(s, i + 1)

hexEscapeNonASCII(s) == hexEscapeFrom(s, 1)

\* the Location header http.Redirect sets
Location(r, url) == CHOOSE l \in {hexEscapeNonASCII(u) : u \in {RedirectURL(r, url)}} : TRUE

\* htmlEscape(s) of net/http
RECURSIVE htmlEscapeFrom(_, _)
htmlEscapeFrom(s, i) ==
    IF i > Len(s) THEN <<>>
    ELSE (CASE s[i] = "&" -> <<"&", "a", "m", "p", ";">>
            [] s[i] = "<" -> <<"&", "l", "t", ";">>
            [] s[i] = ">" -> <<"&", "g", "t", ";">>
            [] s[i] = "\"" -> <<"&", "#", "3", "4", ";">>
            [] s[i] = "'" -> <<"&", "#", "3", "9", ";">>
            [] OTHER -> <<s[i]>>) \o htmlEscapeFrom(s, i + 1)

htmlEscape(s) == htmlEscapeFrom(s, 1)

\* http.Redirect(w, r, url, 301): when no Content-Type was set, a GET and a
\* HEAD get the type text/html and a GET a small HTML body
Redirect(rw, r, url) ==
    LET hadCT == rw.header # ""
        typed == IF ~hadCT /\ r.method \in {<<"G", "E", "T">>, <<"H", "E", "A", "D">>}
                   THEN SetHeader(rw, "text/html; charset=utf-8") ELSE rw
        sent == WriteHeader(typed, 301)
    IN  IF ~hadCT /\ r.method = <<"G", "E", "T">>
          THEN Write(sent, <<"<", "a", " ", "h", "r", "e", "f", "=", "\"">>
                             \o (CHOOSE h \in {htmlEscape(u) : u \in {RedirectURL(r, url)}} : TRUE)
                             \o <<"\"", ">", "M", "o", "v", "e", "d", " ", "P", "e", "r", "m", "a", "n", "e", "n", "t", "l", "y", "<", "/", "a", ">", ".">> \o <<"\n", "\n">>)
          ELSE sent

\* the API specs: lower-case and upper-case method names, paths with and
\* without leading and trailing slashes, two paths that differ in the
\* trailing slash only and two with one full path
ApiSpecs ==
    {(<<"/", "t", "e", "s", "t">> :> {<<"g", "e", "t">>, <<"p", "o", "s", "t">>}) @@ (<<"/", "s", "t", "r", "u", "c", "t">> :> {<<"g", "e", "t">>}),
     (<<"t", "e", "s", "t">> :> {<<"G", "E", "T">>}) @@ (<<"/", "u", "n", "k", "n", "o", "w", "n", "/">> :> {<<"d", "e", "l", "e", "t", "e">>}),
     (<<"/", "t", "e", "s", "t">> :> {<<"g", "e", "t">>}) @@ (<<"/", "t", "e", "s", "t", "/">> :> {<<"p", "o", "s", "t">>}),
     (<<"/", "t", "e", "s", "t">> :> {<<"g", "e", "t">>}) @@ (<<"t", "e", "s", "t">> :> {<<"p", "o", "s", "t">>})}
RequestMethods == {<<"G", "E", "T">>, <<"H", "E", "A", "D">>, <<"P", "O", "S", "T">>, <<"D", "E", "L", "E", "T", "E">>}
RequestPaths ==
    {<<"/", "v", "1", "/", "t", "e", "s", "t">>,
     <<"/", "v", "1", "/", "t", "e", "s", "t", "/">>,
     <<"/", "v", "1", "/", "s", "t", "r", "u", "c", "t">>,
     <<"/", "v", "1", "/", "u", "n", "k", "n", "o", "w", "n">>,
     <<"/", "v", "1", "/", "u", "n", "k", "n", "o", "w", "n", "/">>,
     <<"/", "v", "1", "/", "/", "t", "e", "s", "t">>,
     <<"/", "v", "1", "/", ".", "/", "t", "e", "s", "t">>,
     <<"/", "v", "1", "/", "x", "/", ".", ".", "/", "t", "e", "s", "t", "/">>,
     <<"*">>,
     <<"/", "t", "e", "s", "t">>,
     <<"/", "v", "1", "/", "o", "t", "h", "e", "r">>,
     <<"/">>}

\* the number of requests the router is sent
RouterRequests == 1

\* Router.ServeHTTP(w, req): a path that is not clean is redirected to its
\* clean form; otherwise the handler of the match serves the request, and
\* handleRequest starts as in HR_Begin
ServeHTTP(p) ==
    /\ Cardinality({q \in Procs : pc[q] # "idle"}) < RouterRequests
    /\ \E method \in RequestMethods, path \in RequestPaths, stream \in {"", "true"},
          k \in 0..(LatencyDen - 1) :
         \E r \in {[method |-> method, path |-> path]}, clean \in {cleanPath(path)} :
         \E found \in {IF clean # path
                         THEN [handler |-> "clean", template |-> <<>>,
                               location |-> URLString(clean, stream), sim |-> <<>>]
                         ELSE Match(router, method, path, stream)} :
         \E m \in {IF found.handler = "redirect"
                     THEN [found EXCEPT !.location = Location(r, @)] ELSE found} :
         \E engine \in {m.handler = "handleRequest"} :
             /\ match' = [match EXCEPT ![p] = r @@ m]
             /\ req' = [req EXCEPT ![p] = [path |-> IF engine THEN m.template ELSE path,
                                           stream |-> stream]]
             /\ sim' = [sim EXCEPT ![p] = IF engine THEN m.sim ELSE @]
             /\ chosenLatency' = [chosenLatency EXCEPT ![p] =
                                    IF engine THEN getLatency(config, k) ELSE Rat(0, 1)]
             /\ pc' = [pc EXCEPT ![p] = IF engine THEN "hr_sleep" ELSE "done"]
             /\ w' = [w EXCEPT ![p] =
                        CASE m.handler = "handleRequest" -> NewRecorder
                          [] m.handler = "methodNotAllowed" ->
                               sendJSONError(NewRecorder, StatusMethodNotAllowed,
                                             MethodNotAllowed)
                          [] m.handler = "notFound" ->
                               sendJSONError(NewRecorder, StatusNotFound, NotFound)
                          [] m.handler = "redirect" ->
                               Redirect(NewRecorder, r, found.location)
                          [] m.handler = "muxMethodNotAllowed" ->
                               WriteHeader(NewRecorder, StatusMethodNotAllowed)
                          [] m.handler = "clean" -> WriteHeader(NewRecorder, 301)]
    /\ NoResponse(p)
    /\ NoLocals(p)
    /\ UNCHANGED <<simulators, calls, errorCount, config, file, loadResult, router>>

\* main after setupRouter: one simulator for each path of the spec (line
\* 51), the routes in one of the orders the range statements can give, no
\* request yet
InitRouter ==
    /\ \E spec \in ApiSpecs, prefix \in {<<"v", "1">>, <<"/", "v", "1", "/">>}, f \in {Rat(0, 1), Rat(1, 1)} :
         /\ config = [Prefix |-> prefix] @@ TestConfig(SimulatedErrorBody, f)
         /\ \E paths \in Orders(DOMAIN spec) :
              \E methods \in [DOMAIN spec -> UNION {Orders(spec[path]) : path \in DOMAIN spec}] :
                 /\ \A path \in DOMAIN spec : methods[path] \in Orders(spec[path])
                 /\ router = setupRouter([Prefix |-> prefix], spec,
                                         [paths |-> paths, methods |-> methods])
         /\ simulators = [e \in DOMAIN spec |-> NewErrorSimulator(f)]
         /\ calls = [e \in DOMAIN spec |-> 0]
         /\ errorCount = [e \in DOMAIN spec |-> 0]
    /\ match = [p \in Procs |-> NoMatch]
    /\ req = [p \in Procs |-> NoRequest]
    /\ w = [p \in Procs |-> NewRecorder]
    /\ responseData = [p \in Procs |-> NilV]
    /\ jsonBytes = [p \in Procs |-> <<>>]
    /\ chunkSize = [p \in Procs |-> 0]
    /\ loop_i = [p \in Procs |-> 0]
    /\ chosenLatency = [p \in Procs |-> Rat(0, 1)]
    /\ pc = [p \in Procs |-> "idle"]
    /\ sim = [p \in Procs |-> TestSim]
    /\ requests = [p \in Procs |-> 0]
    /\ currentErrors = [p \in Procs |-> 0]
    /\ draw = [p \in Procs |-> 0]
    /\ shouldError = [p \in Procs |-> FALSE]
    /\ rateRequests = [p \in Procs |-> 0]
    /\ rate = [p \in Procs |-> Rat(0, 1)]
    /\ NotLoaded

NextRouter ==
    \E p \in Procs :
        \/ ServeHTTP(p)
        \/ HR_CallShouldError(p)
        \/ SE_AddRequests(p)
        \/ SE_LoadErrors(p)
        \/ SE_Decide(p)
        \/ HR_SimulateError(p)
        \/ HR_GetResponseData(p)
        \/ HR_NormalResponse(p)
        \/ SR_Begin(p)
        \/ SR_Chunk(p)
        \/ SR_Wake(p)
        \/ SR_Done(p)

SpecRouter == InitRouter /\ [][NextRouter]_vars

(***************************************************************************)
(* Properties of the ErrorSimulator.                                       *)
(***************************************************************************)
InShouldError(p) == pc[p] \in {"se_add_requests", "se_load_errors", "se_decide"}
Quiescent(e) == \A p \in Procs : sim[p] = e => ~InShouldError(p)
One == Rat(1, 1)
Zero == Rat(0, 1)

\* C1: no increment is lost.  Whenever no ShouldError call is in progress on a
\* simulator (GetCurrentErrorRate calls may be), its totalRequests is the
\* number of ShouldError calls made on it and its totalErrors is the number of
\* those calls that returned true.
C1_NoLostIncrement ==
    \A e \in RegisteredPaths :
        Quiescent(e) =>
            /\ simulators[e].totalRequests = calls[e]
            /\ simulators[e].totalErrors = errorCount[e]

\* two goroutines have completed three calls between them, at least two of them
\* returned true, while the other goroutine is inside GetCurrentErrorRate
C1_Witness ==
    /\ Quiescent(TestSim)
    /\ calls[TestSim] = 3
    /\ errorCount[TestSim] >= 2
    /\ \E p \in Procs : pc[p] = "gr_load_errors"
    /\ \E p \in Procs : pc[p] = "se_returned"

\* C2: totalErrors <= totalRequests in every reachable state of a simulator
\* that started fresh, whatever the interleaving.
C2_ErrorsAtMostRequests ==
    \A e \in RegisteredPaths : simulators[e].totalErrors <= simulators[e].totalRequests

\* a call stands between its request increment and its error increment while
\* another call has already counted an error
C2_Witness ==
    \E p \in Procs :
        /\ pc[p] = "se_decide"
        /\ simulators[sim[p]].totalErrors >= 1
        /\ simulators[sim[p]].totalErrors < simulators[sim[p]].totalRequests
        /\ \E q \in Procs : q # p /\ pc[q] = "se_load_errors"

\* C3: every value GetCurrentErrorRate returns lies in [0, 1].
C3_RateInUnitInterval ==
    \A p \in Procs :
        pc[p] = "gr_returned" => ~RatLess(rate[p], Zero) /\ ~RatLess(One, rate[p])

\* C6: a ShouldError call returns true iff its draw is below the adjusted
\* probability (1.5 x target when totalErrors snapshot / own totalRequests is
\* below the target, 0.5 x target when above, the target when equal), and the
\* step that returns adds one to totalErrors when it returns true and leaves
\* totalErrors alone when it returns false; no other step of the simulator
\* changes totalErrors.
C6_AdjustedDecision ==
    [][\A p \in Procs :
         LET e == sim[p]
             f == simulators[e].targetFrequency
             below == currentErrors[p] * f.d < f.n * requests[p]
             above == currentErrors[p] * f.d > f.n * requests[p]
             \* the adjusted probability as a fraction of 2 * f.d
             adjN == IF below THEN 3 * f.n ELSE IF above THEN f.n ELSE 2 * f.n
             returns == pc[p] = "se_decide" /\ pc'[p] = "se_returned"
         IN  /\ returns =>
                  /\ shouldError'[p] <=> (draw'[p] * 2 * f.d < adjN * DrawDen)
                  /\ simulators'[e].totalErrors =
                       simulators[e].totalErrors + (IF shouldError'[p] THEN 1 ELSE 0)
             /\ (pc[p] # pc'[p] /\ ~returns) =>
                  simulators'[e].totalErrors = simulators[e].totalErrors
      ]_vars

\* a call that saw a rate above its target has returned true
C6_Witness ==
    \E p \in Procs :
        LET f == simulators[sim[p]].targetFrequency
        IN  /\ pc[p] = "se_returned"
            /\ currentErrors[p] * f.d > f.n * requests[p]
            /\ shouldError[p]
            /\ draw[p] > 0

(***************************************************************************)
(* Properties of the responses.                                            *)
(***************************************************************************)
\* the status code the client receives
ObservedStatus(rw) == IF rw.status = 0 THEN 200 ELSE rw.status

HasPrefix(b, prefix) ==
    Len(b) >= Len(prefix) /\ SubSeq(b, 1, Len(prefix)) = prefix

\* the chunks carried by the data frames written, in order
RECURSIVE DataChunks(_)
DataChunks(writes) ==
    IF writes = <<>> THEN <<>>
    ELSE LET b == Head(writes)
         IN  IF b # DoneFrame /\ HasPrefix(b, DataPrefix)
               THEN <<SubSeq(b, Len(DataPrefix) + 1, Len(b) - Len(FrameEnd))>>
                      \o DataChunks(Tail(writes))
               ELSE DataChunks(Tail(writes))

\* the number of sentinel frames written
RECURSIVE Sentinels(_)
Sentinels(writes) ==
    IF writes = <<>> THEN 0
    ELSE (IF Head(writes) = DoneFrame THEN 1 ELSE 0) + Sentinels(Tail(writes))

\* goroutine p has returned from streamResponse
Streamed(p) == pc[p] = "done" /\ ~shouldError[p] /\ isStreaming(req[p])
\* goroutine p has returned from simulateError
ErrorSimulated(p) == pc[p] = "done" /\ shouldError[p]

\* the encodings of the configured error body, keys normalized
ErrorBodyEncodings ==
    {Marshal(o.res) : o \in convertToJSONCompatible(config.ErrorResponse.Body)}

\* C4: with targetFrequency = 1.0 every ShouldError call returns true, for
\* every sequence and every interleaving of calls that share a simulator, and
\* every response delivered carries the configured error status, streaming or
\* not.
C4_AlwaysErrorAtOne ==
    RatEq(config.ErrorResponse.Frequency, One) =>
        \A p \in Procs :
            /\ pc[p] = "se_returned" => shouldError[p]
            /\ pc[p] = "done" =>
                  /\ shouldError[p]
                  /\ ObservedStatus(w[p]) = config.ErrorResponse.Code

\* C5: with targetFrequency = 0.0 no ShouldError call returns true, whatever
\* the draw and the interleaving; totalErrors stays 0, totalRequests counts the
\* calls, and no response carries the configured error status.
C5_NeverErrorAtZero ==
    RatEq(config.ErrorResponse.Frequency, Zero) =>
        /\ \A p \in Procs :
             /\ ~shouldError[p]
             /\ ObservedStatus(w[p]) # config.ErrorResponse.Code
        /\ \A e \in RegisteredPaths :
             /\ simulators[e].totalErrors = 0
             /\ Quiescent(e) => simulators[e].totalRequests = calls[e]

\* at frequency 0.0 a call has returned on the draw 0 as the third call of its
\* simulator, while another goroutine has delivered a response
C5_Witness ==
    /\ RatEq(config.ErrorResponse.Frequency, Zero)
    /\ \E p \in Procs :
         /\ pc[p] = "se_returned"
         /\ draw[p] = 0
         /\ simulators[sim[p]].totalRequests = 3
         /\ \E q \in Procs : q # p /\ pc[q] = "done" /\ w[q].status = 200

\* C7: for a payload of L serialized bytes streamResponse writes exactly 3
\* data frames when L >= 3 (two of L div 3 bytes, the third with all the
\* rest) and one data frame with the whole buffer when L < 3.
C7_ThreeDataFrames ==
    \A p \in Procs :
        (Streamed(p) /\ Marshal(responseData[p]).ok) =>
            LET bytes == Marshal(responseData[p]).bytes
                L == Len(bytes)
                chunks == DataChunks(Writes(w[p].trace))
            IN  IF L >= 3
                  THEN chunks = <<SubSeq(bytes, 1, L \div 3),
                                  SubSeq(bytes, (L \div 3) + 1, 2 * (L \div 3)),
                                  SubSeq(bytes, 2 * (L \div 3) + 1, L)>>
                  ELSE chunks = <<bytes>>

\* C8 as stated: every invocation of streamResponse writes exactly one
\* sentinel frame, and it is the last thing written.
C8_OneSentinelEveryInvocation ==
    \A p \in Procs :
        Streamed(p) =>
            LET writes == Writes(w[p].trace)
            IN  /\ Sentinels(writes) = 1
                /\ writes[Len(writes)] = DoneFrame

\* C8, amended: every invocation whose payload json.Marshal accepts writes
\* exactly one sentinel frame, after every data frame and as the last thing
\* written; an invocation whose payload json.Marshal rejects writes no frame
\* at all, neither data nor sentinel.
C8_OneSentinelWhenSerializable ==
    \A p \in Procs :
        Streamed(p) =>
            LET writes == Writes(w[p].trace)
            IN  IF Marshal(responseData[p]).ok
                  THEN /\ Sentinels(writes) = 1
                       /\ writes[Len(writes)] = DoneFrame
                       /\ Len(DataChunks(writes)) = Len(writes) - 1
                  ELSE /\ Sentinels(writes) = 0
                       /\ DataChunks(writes) = <<>>

\* a stream of four data frames has ended with its sentinel, and so has (in
\* another behaviour) the invocation on a channel with no frame at all
C8_Witness ==
    \E p \in Procs :
        /\ Streamed(p)
        /\ Marshal(responseData[p]).ok
        /\ Len(DataChunks(Writes(w[p].trace))) = 4
        /\ Sentinels(Writes(w[p].trace)) = 1

\* C9: a simulated error on a request that asked for streaming has
\* Content-Type text/event-stream, the configured status code and a body of
\* one frame, data: <error body JSON> and a blank line, with no sentinel.
C9_StreamingErrorFrame ==
    \A p \in Procs :
        (ErrorSimulated(p) /\ isStreaming(req[p])) =>
            /\ w[p].contentType = "text/event-stream"
            /\ ObservedStatus(w[p]) = config.ErrorResponse.Code
            /\ \E m \in ErrorBodyEncodings :
                 Writes(w[p].trace) = <<DataPrefix \o m.bytes \o FrameEnd>>
            /\ Sentinels(Writes(w[p].trace)) = 0

\* the steps of simulateError for goroutine p neither read nor write the
\* override table and resolve no value
ErrorPathResolvesNothing ==
    \A p \in Procs :
        (shouldError[p] /\ pc[p] \in {"se_returned", "eb_convert"} /\ pc'[p] # pc[p]) =>
            /\ config'.Responses = config.Responses
            /\ responseData'[p] = NilV /\ responseData[p] = NilV

Written(trace) == {j \in 1..Len(trace) : trace[j].op \in {"WriteHeader", "Write", "Flush"}}
AfterShouldError == {"se_load_errors", "se_decide", "se_returned", "eb_convert",
                     "eb_raced", "gd_convert", "gd_raced", "hr_respond", "sr_loop",
                     "sr_sleep", "done"}

\* C11: every dispatch sleeps its sampled delay before it calls ShouldError
\* and calls ShouldError exactly once, whether it then errors or succeeds:
\* nothing is written while the delay lasts or before it, the trace of every
\* request begins with the sleep, ShouldError is entered only from the sleep
\* and not entered again in the same dispatch, and totalRequests changes only
\* by the increment of one entering call.
C11_DelayThenOneShouldError ==
    /\ [](\A p \in Procs :
            /\ pc[p] = "hr_sleep" => w[p] = NewRecorder
            /\ pc[p] \in AfterShouldError \cup {"se_add_requests"} =>
                  /\ w[p].trace # <<>>
                  /\ w[p].trace[1].op = "Sleep"
                  /\ \A j \in Written(w[p].trace) : j > 1)
    /\ [][\A p \in Procs :
            /\ pc[p] = "hr_sleep" => pc'[p] \in {"hr_sleep", "se_add_requests"}
            /\ (pc'[p] = "se_add_requests" /\ pc[p] # "se_add_requests") =>
                  pc[p] = "hr_sleep"
            /\ pc[p] \in AfterShouldError => pc'[p] # "se_add_requests"
            /\ (pc[p] = "se_add_requests" /\ pc'[p] # pc[p]) =>
                  simulators'[sim[p]].totalRequests
                      = simulators[sim[p]].totalRequests + 1
            /\ \A e \in RegisteredPaths :
                  simulators'[e].totalRequests # simulators[e].totalRequests =>
                      \E q \in Procs : /\ sim[q] = e
                                       /\ pc[q] = "se_add_requests"
                                       /\ pc'[q] = "se_load_errors"]_vars

\* two requests on one path are done, one answered with the simulated error
\* and one with the resolved response, and the simulator has counted two
\* requests
C11_Witness ==
    \E p, q \in Procs :
        /\ p # q /\ sim[p] = sim[q]
        /\ pc[p] = "done" /\ shouldError[p] /\ w[p].trace[1].op = "Sleep"
        /\ pc[q] = "done" /\ ~shouldError[q] /\ w[q].trace[1].op = "Sleep"
        /\ simulators[sim[p]].totalRequests = 2

\* the positions a goroutine may move to from each position: Start ->
\* Delayed (the sleep and the ShouldError call) -> ErrorEmitted, or
\* ResponseResolved -> StreamedOut or DirectOut, -> Done
Successors(at) ==
    CASE at \in {"idle", "done"} -> {"hr_sleep"}
      [] at = "hr_sleep" -> {"se_add_requests"}
      [] at = "se_add_requests" -> {"se_load_errors"}
      [] at = "se_load_errors" -> {"se_decide"}
      [] at = "se_decide" -> {"se_returned"}
      [] at = "se_returned" -> {"done", "eb_convert", "eb_raced", "hr_respond",
                                "gd_convert", "gd_raced", "undefined"}
      [] at = "eb_convert" -> {"done", "eb_raced", "undefined"}
      [] at = "eb_raced" -> {"done", "undefined"}
      [] at = "gd_convert" -> {"hr_respond", "gd_raced", "undefined"}
      [] at = "gd_raced" -> {"hr_respond", "undefined"}
      [] at = "hr_respond" -> {"done", "sr_loop"}
      [] at = "sr_loop" -> {"sr_sleep", "done"}
      [] at = "sr_sleep" -> {"sr_loop"}
      [] OTHER -> {}

NumWrites(rw) == Len(Writes(rw.trace))
\* which of the three outputs a finished response is
IsErrorOut(p) ==
    /\ shouldError[p]
    /\ responseData[p] = NilV
    /\ NumWrites(w[p]) = 1
    /\ DataChunks(Writes(w[p].trace)) = <<>> /\ Sentinels(Writes(w[p].trace)) = 0
    /\ w[p].status = config.ErrorResponse.Code
IsStreamedOut(p) ==
    /\ ~shouldError[p]
    /\ isStreaming(req[p])
    /\ IF Marshal(responseData[p]).ok
         THEN /\ w[p].contentType = "text/event-stream"
              /\ Sentinels(Writes(w[p].trace)) = 1
              /\ w[p].status = 200
         ELSE /\ NumWrites(w[p]) = 1
              /\ DataChunks(Writes(w[p].trace)) = <<>>
              /\ Sentinels(Writes(w[p].trace)) = 0
              /\ w[p].status = StatusInternalServerError
IsDirectOut(p) ==
    /\ ~shouldError[p]
    /\ ~isStreaming(req[p])
    /\ w[p].contentType = "application/json"
    /\ NumWrites(w[p]) = 1
    /\ DataChunks(Writes(w[p].trace)) = <<>> /\ Sentinels(Writes(w[p].trace)) = 0
    /\ w[p].status = IF Marshal(responseData[p]).ok THEN 200
                                                    ELSE StatusInternalServerError

\* C12: each dispatch moves only along Start -> Delayed -> (ErrorEmitted |
\* ResponseResolved -> (StreamedOut | DirectOut)) -> Done.  The branch taken
\* is the one ShouldError and the stream parameter select, a finished request
\* shows exactly one of the three outputs, the error branch resolves and
\* streams nothing, the success branch does not write the error policy, and
\* a finished response is never touched again (the goroutine can only take
\* up a new request, on a new writer).
C12_StateMachine ==
    /\ [](\A p \in Procs :
            /\ pc[p] = "done" =>
                 /\ IsErrorOut(p) \/ IsStreamedOut(p) \/ IsDirectOut(p)
                 /\ ~shouldError[p] =>
                      \A m \in ErrorBodyEncodings : m.ok => Body(w[p]) # m.bytes
            /\ pc[p] \in {"gd_convert", "gd_raced", "hr_respond", "sr_loop", "sr_sleep"} =>
                 ~shouldError[p]
            /\ pc[p] \in {"eb_convert", "eb_raced"} => shouldError[p]
            /\ pc[p] \in {"sr_loop", "sr_sleep"} => isStreaming(req[p]))
    /\ [][\A p \in Procs :
            /\ pc'[p] # pc[p] => pc'[p] \in Successors(pc[p])
            /\ (pc[p] = "se_returned" /\ pc'[p] \in {"eb_convert", "eb_raced", "done"}) =>
                 shouldError[p]
            /\ (pc[p] = "se_returned" /\ pc'[p] \in {"gd_convert", "gd_raced", "hr_respond"}) =>
                 ~shouldError[p]
            /\ (pc[p] = "hr_respond" /\ pc'[p] = "sr_loop") => isStreaming(req[p])
            /\ pc[p] = "done" =>
                 \/ pc'[p] = "done" /\ w'[p] = w[p] /\ responseData'[p] = responseData[p]
                 \/ pc'[p] = "hr_sleep" /\ w'[p] = NewRecorder]_vars

\* one goroutine has answered with the simulated error and the other has
\* streamed its response to the sentinel
C12_Witness ==
    \E p, q \in Procs :
        /\ pc[p] = "done" /\ IsErrorOut(p)
        /\ pc[q] = "done" /\ IsStreamedOut(q)
        /\ Len(DataChunks(Writes(w[q].trace))) >= 3

(***************************************************************************)
(* Properties of getResponseData.                                          *)
(***************************************************************************)
\* the request of goroutine p has passed getResponseData
Resolved(p) == pc[p] \in {"hr_respond", "sr_loop", "sr_sleep", "done"} /\ ~shouldError[p]
\* a successful response of goroutine p is complete
Succeeded(p) == pc[p] = "done" /\ ~shouldError[p]
\* the JSON document a finished successful response delivers: the body
\* without its final newline, or the chunks of its data frames put together
Delivered(p) ==
    IF isStreaming(req[p])
      THEN Join(DataChunks(Writes(w[p].trace)), <<>>)
      ELSE SubSeq(Body(w[p]), 1, Len(Body(w[p])) - 1)

DefaultDocument(path) ==
    <<"{", "\"", "m", "e", "s", "s", "a", "g", "e", "\"", ":", "\"", "R", "e", "s", "p", "o", "n", "s", "e", " ", "f", "o", "r", " ">> \o TrimRight(path, "/") \o <<"\"", "}">>

\* C13: for every path with no override under its normalized form
\* getResponseData returns the map with the single key "message" and the
\* value "Response for " + the normalized path, and the non-error response
\* that carries it has status 200 and that document as its content.
C13_DefaultMessage ==
    \A p \in Procs :
        (Resolved(p) /\ TrimRight(req[p].path, "/") \notin DOMAIN config.Responses) =>
            /\ responseData[p].kind = "map[string]string"
            /\ Len(responseData[p].s) = 1
            /\ responseData[p].s[1].k = StrV(<<"m", "e", "s", "s", "a", "g", "e">>)
            /\ responseData[p].s[1].v
                 = StrV(<<"R", "e", "s", "p", "o", "n", "s", "e", " ", "f", "o", "r", " ">> \o TrimRight(req[p].path, "/"))
            /\ pc[p] = "done" =>
                 /\ w[p].status = 200
                 /\ Delivered(p) = DefaultDocument(req[p].path)

\* a request for /v1/unknown/ has been answered 200 with the default message
\* for /v1/unknown
C13_Witness ==
    \E p \in Procs :
        /\ Succeeded(p)
        /\ req[p] = [path |-> PathUnknown \o <<"/">>, stream |-> ""]
        /\ w[p].status = 200
        /\ Body(w[p]) = <<"{", "\"", "m", "e", "s", "s", "a", "g", "e", "\"", ":", "\"", "R", "e", "s", "p", "o", "n", "s", "e", " ", "f", "o", "r", " ", "/", "v", "1", "/", "u", "n", "k", "n", "o", "w", "n", "\"", "}", "\n">>

\* getResponseData finds an override for the request of p
HasOverride(p) == TrimRight(req[p].path, "/") \in DOMAIN config.Responses
\* a raw text as a JSON document of any type: [ok, v]
Document(text) ==
    LET doc == ParseValue(text, SkipSpace(text, 1))
    IN  IF doc.ok /\ SkipSpace(text, doc.next) > Len(text) /\ ~doc.saved
          THEN [ok |-> TRUE, v |-> doc.v]
          ELSE [ok |-> FALSE, v |-> NilV]
Placeholder == MapSS(<<Entry(KeyError, StrV(<<"I", "n", "v", "a", "l", "i", "d", " ", "J", "S", "O", "N", " ", "o", "v", "e", "r", "r", "i", "d", "e">>))>>)

\* C14: for a raw-text override getResponseData returns the parsed value
\* whenever the text is a well-formed JSON document of any type (object,
\* array, string, number, boolean, null), and the placeholder {"error":
\* "Invalid JSON override"} only when the text is not well-formed JSON.
C14_AnyDocumentParsed ==
    \A p \in Procs :
        (Resolved(p) /\ HasOverride(p) /\ OverrideOf(p).kind = "string") =>
            LET doc == Document(OverrideOf(p).s)
            IN  IF doc.ok
                  THEN Marshal(responseData[p]) = Marshal(doc.v)
                  ELSE responseData[p] = Placeholder

\* C15: a malformed raw-text override is recovered locally.  The request
\* completes on the success path with status 200 and the placeholder as its
\* content, neither the configured error status nor the error body is
\* written, and resolving the override changes no counter of the simulator:
\* totalErrors is still 0.
C15_MalformedOverrideRecovered ==
    /\ [](\A p \in Procs :
            (Resolved(p) /\ HasOverride(p) /\ OverrideOf(p).kind = "string"
                /\ ~Document(OverrideOf(p).s).ok) =>
                /\ responseData[p] = Placeholder
                /\ simulators[sim[p]].totalErrors = 0
                /\ simulators[sim[p]].totalRequests = 1
                /\ pc[p] = "done" =>
                     /\ w[p].status = 200
                     /\ Delivered(p) = Marshal(Placeholder).bytes
                     /\ \A j \in 1..Len(w[p].trace) : w[p].trace[j].op # "WriteHeader"
                     /\ \A m \in ErrorBodyEncodings : m.ok => Delivered(p) # m.bytes)
    /\ [][\A p \in Procs :
            (pc[p] \in {"se_returned", "gd_convert"} /\ pc'[p] \in {"gd_convert", "hr_respond"}) =>
                simulators' = simulators]_vars

\* the request for the path whose override is {"message":} has been
\* answered 200 with the placeholder
C15_Witness ==
    \E p \in Procs :
        /\ Succeeded(p)
        /\ HasOverride(p) /\ OverrideOf(p) = RawMalformed
        /\ w[p].status = 200
        /\ Body(w[p]) = <<"{", "\"", "e", "r", "r", "o", "r", "\"", ":", "\"", "I", "n", "v", "a", "l", "i", "d", " ", "J", "S", "O", "N", " ", "o", "v", "e", "r", "r", "i", "d", "e", "\"", "}", "\n">>

\* every object of v, at every depth, is a map with string keys
RECURSIVE StringKeyed(_)
StringKeyed(v) ==
    CASE v.kind = "map[interface {}]interface {}" -> FALSE
      [] v.kind \in {"map[string]interface {}", "map[string]string"} ->
           \A j \in 1..Len(v.s) : StringKeyed(v.s[j].v)
      [] v.kind = "[]interface {}" ->
           \A j \in 1..Len(v.s) : StringKeyed(v.s[j])
      [] OTHER -> TRUE

IsObject(v) ==
    v.kind \in {"map[interface {}]interface {}", "map[string]interface {}",
                "map[string]string"}

\* out is v with its keys replaced by their string representation: arrays
\* keep their elements in order, scalars are the same
RECURSIVE SameContent(_, _)
SameContent(v, out) ==
    CASE IsObject(v) ->
           /\ IsObject(out)
           /\ Len(out.s) = Len(v.s)
           /\ \A j \in 1..Len(v.s) :
                \E k \in 1..Len(out.s) :
                    /\ out.s[k].k = StrV(SprintV(v.s[j].k))
                    /\ SameContent(v.s[j].v, out.s[k].v)
      [] v.kind = "[]interface {}" ->
           /\ out.kind = v.kind
           /\ Len(out.s) = Len(v.s)
           /\ \A j \in 1..Len(v.s) : SameContent(v.s[j], out.s[j])
      [] OTHER -> out = v

\* C16: for a structured override (maps and slices nested in any way, the
\* keys of the maps strings or not) getResponseData returns a value in which
\* every object at every depth has only string keys, each key the string
\* representation of the key it replaces, arrays keep their order and
\* scalars are unchanged: in every state that holds a resolved value, and on
\* the step that resolves it, against the override as the call found it.
C16_EveryObjectStringKeyed ==
    /\ [](\A p \in Procs :
            (Resolved(p) /\ HasOverride(p) /\ OverrideOf(p).kind # "string") =>
                /\ StringKeyed(responseData[p])
                /\ SameContent(OverrideOf(p), responseData[p]))
    /\ [][\A p \in Procs :
            (/\ pc[p] \in {"se_returned", "gd_convert"} /\ pc'[p] = "hr_respond"
             /\ HasOverride(p) /\ OverrideOf(p).kind # "string") =>
                /\ StringKeyed(responseData'[p])
                /\ SameContent(OverrideOf(p), responseData'[p])]_vars

\* the override {1: one, +Inf: 0.5, true: [{2: nil}, x, 3]} has been resolved:
\* the keys are "+Inf", "1", "true" and, inside the list, "2"
C16_Witness ==
    \E p \in Procs :
        /\ Resolved(p)
        /\ HasOverride(p)
        /\ responseData[p] =
              MapSI(<<Entry(StrV(<<"+", "I", "n", "f">>), FloatE(5, -1)),
                      Entry(StrV(<<"1">>), StrV(<<"o", "n", "e">>)),
                      Entry(StrV(<<"t", "r", "u", "e">>),
                            SliceV(<<MapSI(<<Entry(StrV(<<"2">>), NilV)>>),
                                     StrV(<<"x">>), IntV(3)>>))>>)

HasTrailingSlash(path) == path # <<>> /\ path[Len(path)] = "/"

\* C17: getResponseData trims the trailing slash before the override lookup
\* and before building the default message: the path with one more "/"
\* resolves as the path itself, trimming twice is trimming once, and a path
\* without a trailing slash is looked up as it is.
C17_TrailingSlashIgnored ==
    /\ [](\A path \in HandlerPaths :
            /\ getResponseData(path \o <<"/">>, config) = getResponseData(path, config)
            /\ TrimRight(TrimRight(path, "/"), "/") = TrimRight(path, "/")
            /\ ~HasTrailingSlash(path) => TrimRight(path, "/") = path)
    /\ [][\A p \in Procs :
            (pc[p] \in {"se_returned", "gd_convert"} /\ pc'[p] = "hr_respond") =>
                /\ [data |-> responseData'[p], config |-> config']
                       \in getResponseData(req[p].path \o <<"/">>, config)
                /\ ~HasTrailingSlash(req[p].path) =>
                       \/ /\ req[p].path \in DOMAIN config.Responses
                          /\ responseData'[p] \in
                               {o.data : o \in getResponseData(req[p].path, config)}
                       \/ /\ req[p].path \notin DOMAIN config.Responses
                          /\ Marshal(responseData'[p]).bytes = DefaultDocument(req[p].path)]_vars

\* the request for "/v1/test/" got the override filed under "/v1/test"
C17_Witness ==
    \E p \in Procs :
        /\ Resolved(p)
        /\ req[p].path = PathTest \o <<"/">>
        /\ config.Responses = (PathTest :> RawObject)
        /\ responseData[p] = Unmarshal(RawObject.s).v

\* goroutine p sleeps for the latency it sampled: before the response or
\* between two chunks
Sleeping(p) == pc[p] \in {"hr_sleep", "sr_sleep"}

\* C18: every sampled latency, the delay before the response and each delay
\* between chunks, lies in [Latency.Low, Latency.High] and is Low when
\* Low = High.
C18_LatencyInRange ==
    \A p \in Procs :
        Sleeping(p) =>
            /\ ~RatLess(chosenLatency[p], config.Latency.Low)
            /\ ~RatLess(config.Latency.High, chosenLatency[p])
            /\ RatEq(config.Latency.Low, config.Latency.High) =>
                   RatEq(chosenLatency[p], config.Latency.Low)

\* between two chunks, a latency strictly inside the range 0..3 was sampled
C18_Witness ==
    \E p \in Procs :
        /\ pc[p] = "sr_sleep"
        /\ config.Latency = [Low |-> Rat(0, 1), High |-> Rat(3, 1)]
        /\ RatLess(config.Latency.Low, chosenLatency[p])
        /\ RatLess(chosenLatency[p], config.Latency.High)

\* the response of goroutine p is the fixed internal error: status 500, the
\* minimal JSON error document as its body, written once
IsMinimalError(p) ==
    /\ ObservedStatus(w[p]) = StatusInternalServerError
    /\ Body(w[p]) \in {MinimalError, MinimalError \o <<"\n">>}
    /\ Len(Writes(w[p].trace)) = 1

\* the value goroutine p had to write could not be serialized
DirectFailed(p) ==
    Succeeded(p) /\ ~isStreaming(req[p]) /\ ~Marshal(responseData[p]).ok
StreamFailed(p) ==
    Succeeded(p) /\ isStreaming(req[p]) /\ ~Marshal(responseData[p]).ok
ErrorBodyFailed(p) ==
    ErrorSimulated(p) /\ \A m \in ErrorBodyEncodings : ~m.ok

\* C19: whenever the value cannot be serialized, on the direct, the streamed
\* and the simulated-error path alike, the response has status 500 and the
\* minimal JSON error document as its body, and that write is made once.
C19_SerializationFailureIs500 ==
    \A p \in Procs :
        (DirectFailed(p) \/ StreamFailed(p) \/ ErrorBodyFailed(p)) => IsMinimalError(p)

\* C20: when json.Marshal of the resolved value fails, streamResponse returns
\* before any frame: no data frame and no termination marker is written, the
\* loop is never entered and no sleep between chunks is taken, and the
\* response has status 500 and the message "Internal server error".
C20_StreamAbortsBeforeFrames ==
    \A p \in Procs :
        (isStreaming(req[p]) /\ ~shouldError[p] /\ ~Marshal(responseData[p]).ok) =>
            /\ pc[p] \in {"hr_respond", "done"}
            /\ \A j \in 1..Len(w[p].trace) :
                 /\ w[p].trace[j].op \notin {"Sleep", "Flush"}
                 /\ w[p].trace[j].op = "Write" => ~HasPrefix(w[p].trace[j].s, DataPrefix)
            /\ pc[p] = "done" =>
                 /\ ObservedStatus(w[p]) = StatusInternalServerError
                 /\ Body(w[p]) = InternalServerError \o <<"\n">>
                 /\ Len(Writes(w[p].trace)) = 1

\* streamResponse has returned for a channel value: status 500, the message
\* as the whole body
C20_Witness ==
    \E p \in Procs :
        /\ Streamed(p)
        /\ responseData[p] = Chan
        /\ w[p].status = 500
        /\ Writes(w[p].trace) = <<InternalServerError \o <<"\n">>>>

\* the writes goroutine p attempted, failed or not, and its status writes
RECURSIVE Attempts(_)
Attempts(trace) ==
    IF trace = <<>> THEN <<>>
    ELSE IF Head(trace).op \in {"Write", "WriteErr"}
           THEN <<Head(trace).s>> \o Attempts(Tail(trace))
           ELSE Attempts(Tail(trace))
StatusWrites(trace) == {j \in 1..Len(trace) : trace[j].op = "WriteHeader"}
\* the frames of a stream of bytes, in order, the termination marker last
RECURSIVE FramesFrom(_, _, _)
FramesFrom(bytes, from, size) ==
    IF from >= Len(bytes) THEN <<DoneFrame>>
    ELSE <<Frame(bytes, from, size)>> \o FramesFrom(bytes, from + size, size)

\* C21: a failing sink is never retried: whichever write fails, a finished
\* dispatch has attempted its status write at most once and its body write at
\* most once, or each frame of its stream exactly once.
C21_NoWriteRetried ==
    \A p \in Procs :
        pc[p] = "done" =>
            /\ Cardinality(StatusWrites(w[p].trace)) <= 1
            /\ IF ~shouldError[p] /\ isStreaming(req[p]) /\ Marshal(responseData[p]).ok
                 THEN Attempts(w[p].trace) =
                        FramesFrom(jsonBytes[p], 0, chunkSize[p])
                 ELSE Len(Attempts(w[p].trace)) <= 1

\* C22: no step of a request changes the configuration: the latency range,
\* the error policy with its body and every entry of the override table keep
\* the values loaded, and of a simulator only the two counters change.
C22_ConfigurationReadOnly ==
    [][/\ config' = config
       /\ \A e \in RegisteredPaths :
            simulators'[e].targetFrequency = simulators[e].targetFrequency]_vars

\* C23: the requests to all registered paths count on one simulator:
\* whenever no ShouldError call is in progress, the totalRequests of the
\* simulator a request is handed is the number of ShouldError calls made by
\* the dispatches to all paths together.
C23_OneSimulatorPerProcess ==
    (\A p \in Procs : ~InShouldError(p)) =>
        \A p \in Procs :
            pc[p] # "idle" =>
                simulators[sim[p]].totalRequests = SumCalls(RegisteredPaths)

\* the step with which goroutine p returns from GetCurrentErrorRate
GR_Returns(p) ==
    pc[p] \in {"gr_load_requests", "gr_load_errors"} /\ pc'[p] = "gr_returned"

\* C24: GetCurrentErrorRate returns exactly 0.0 when the totalRequests it
\* reads is 0 and otherwise the totalErrors it reads divided by that
\* totalRequests, which is totalErrors / totalRequests of the simulator
\* whenever totalRequests is still what the call read; no step of the call
\* changes a counter.
C24_RateIsRatioPureRead ==
    [][\A p \in Procs :
         /\ pc[p] \in {"gr_load_requests", "gr_load_errors"} =>
                (pc'[p] # pc[p] => simulators' = simulators)
         /\ GR_Returns(p) =>
                LET e == simulators[sim[p]]
                IN  /\ (pc[p] = "gr_load_requests") <=> (e.totalRequests = 0)
                    /\ pc[p] = "gr_load_requests" => rate'[p] = Rat(0, 1)
                    /\ pc[p] = "gr_load_errors" =>
                         /\ RatEq(rate'[p], Rat(e.totalErrors, rateRequests[p]))
                         /\ e.totalRequests = rateRequests[p] =>
                              RatEq(rate'[p], Rat(e.totalErrors, e.totalRequests))]_vars

\* after two ShouldError calls, one of which returned true, the rate
\* returned is 1/2
C24_Witness ==
    \E p \in Procs :
        /\ pc[p] = "gr_returned"
        /\ simulators[sim[p]].totalRequests = 2
        /\ simulators[sim[p]].totalErrors = 1
        /\ rateRequests[p] = 2
        /\ rate[p] = Rat(1, 2)

\* the events of a trace that reach the sink: writes and flushes, in order
RECURSIVE SinkEvents(_)
SinkEvents(trace) ==
    IF trace = <<>> THEN <<>>
    ELSE IF Head(trace).op \in {"Write", "WriteErr", "Flush"}
           THEN <<Head(trace).op>> \o SinkEvents(Tail(trace))
           ELSE SinkEvents(Tail(trace))

\* C26: a successful streamed response has Content-Type text/event-stream
\* and status 200, and each frame, data or termination marker, is followed
\* by a flush before anything else is written.
C26_EveryFrameFlushed ==
    \A p \in Procs :
        (isStreaming(req[p]) /\ ~shouldError[p] /\ Marshal(responseData[p]).ok
            /\ pc[p] \in {"sr_loop", "sr_sleep", "done"}) =>
            LET ev == SinkEvents(w[p].trace)
            IN  /\ \A j \in 1..Len(ev) :
                     IF j % 2 = 1 THEN ev[j] = "Write" ELSE ev[j] = "Flush"
                /\ Len(ev) % 2 = 0
                /\ pc[p] = "done" =>
                     /\ w[p].contentType = "text/event-stream"
                     /\ w[p].status = 200
                     /\ Len(ev) = 2 * (Len(DataChunks(Writes(w[p].trace))) + 1)

\* three data frames and the termination marker went out, each followed by
\* its flush
C26_Witness ==
    \E p \in Procs :
        /\ Streamed(p)
        /\ Len(DataChunks(Writes(w[p].trace))) = 3
        /\ SinkEvents(w[p].trace) =
             <<"Write", "Flush", "Write", "Flush", "Write", "Flush", "Write", "Flush">>
        /\ w[p].contentType = "text/event-stream"

\* C27: a successful response to a request whose query does not have
\* stream=true has Content-Type application/json, status 200 and as its body
\* the one JSON document that encodes the resolved value, written once, with
\* no data frame, no termination marker and no flush; such a request never
\* enters streamResponse.
C27_DirectResponse ==
    \A p \in Procs :
        (req[p].stream # "true" /\ ~shouldError[p]) =>
            /\ pc[p] \notin {"sr_loop", "sr_sleep"}
            /\ (Succeeded(p) /\ Marshal(responseData[p]).ok) =>
                 /\ w[p].contentType = "application/json"
                 /\ ObservedStatus(w[p]) = 200
                 /\ Writes(w[p].trace) = <<Marshal(responseData[p]).bytes \o <<"\n">>>>
                 /\ \A j \in 1..Len(w[p].trace) :
                      /\ w[p].trace[j].op \notin {"Flush", "WriteHeader"}
                      /\ w[p].trace[j].op = "Write" =>
                           ~HasPrefix(w[p].trace[j].s, DataPrefix)

\* the request with stream=false got the override of TestHandleRequest_Success
\* as one JSON document
C27_Witness ==
    \E p \in Procs :
        /\ Succeeded(p)
        /\ req[p].stream = "false"
        /\ w[p].status = 200
        /\ Body(w[p]) = <<"{", "\"", "c", "u", "s", "t", "o", "m", "\"", ":", "\"", "d", "a", "t", "a", "\"", ",", "\"", "v", "a", "l", "u", "e", "\"", ":", "1", "2", "3", "}", "\n">>

(***************************************************************************)
(* Properties of loadConfig.                                               *)
(***************************************************************************)
\* loadConfig has returned for a file it could read and parse
Loaded == loadResult # NoResult /\ file.readable /\ file.parsable

\* the required fields the document leaves out or gives the zero value
RequiredMissing(cfg) ==
    {n \in {Field.api_spec} : cfg.APISpec = <<>>}
    \cup {n \in {Field.low} : cfg.Latency.Low = 0}
    \cup {n \in {Field.high} : cfg.Latency.High = 0}
    \cup {n \in {Field.frequency} : RatEq(cfg.ErrorResponse.Frequency, Rat(0, 1))}
    \cup {n \in {Field.code} : cfg.ErrorResponse.Code = 0}
    \cup {n \in {Field.body} : cfg.ErrorResponse.Body = NilV}
    \cup {n \in {Field.prefix} : cfg.Prefix = <<>>}

\* C28: when the document leaves out, or gives the zero value to, at least
\* one of api_spec, latency.low, latency.high, error_response.frequency,
\* error_response.code, error_response.body and prefix, loadConfig returns
\* an error and no configuration, and the message of the error names every
\* such field; loadConfig returns a configuration only when none of them is
\* missing (and the file could be read and parsed).
C28_MissingFieldsReported ==
    /\ Loaded /\ RequiredMissing(file.decoded) # {} =>
          /\ loadResult.config = NilV
          /\ loadResult.err # <<>>
          /\ \A n \in RequiredMissing(file.decoded) : Contains(loadResult.err, n)
    /\ loadResult # NoResult /\ loadResult.config # NilV =>
          /\ file.readable /\ file.parsable
          /\ RequiredMissing(file.decoded) = {}
          /\ loadResult.err = <<>>

\* a document without latency.low and error_response.code, everything else
\* given, was rejected with exactly these two names
C28_Witness ==
    /\ Loaded
    /\ RequiredMissing(file.decoded) = {Field.low, Field.code}
    /\ ~RatEq(file.decoded.Latency.LowFrequency, Rat(0, 1))
    /\ TrimSpace(file.decoded.APISpec) # <<>>
    /\ loadResult.config = NilV
    /\ loadResult.err = <<"m", "i", "s", "s", "i", "n", "g", " ", "r", "e", "q", "u", "i", "r", "e", "d", " ", "c", "o", "n", "f", "i", "g", "u", "r", "a", "t", "i", "o", "n", " ", "v", "a", "l", "u", "e", "s", ":", " ">> \o Field.low \o <<",", " ">> \o Field.code

\* what the core assumes of a validated record
ValidRecord(cfg) ==
    /\ cfg.Latency.Low >= 0
    /\ cfg.Latency.High >= 0
    /\ cfg.Latency.Low <= cfg.Latency.High
    /\ cfg.ErrorResponse.Code > 0
    /\ ~RatLess(cfg.ErrorResponse.Frequency, Rat(0, 1))
    /\ ~RatLess(Rat(1, 1), cfg.ErrorResponse.Frequency)

\* the fields the record of the core does not range over are all given
OtherFieldsGiven(cfg) ==
    /\ TrimSpace(cfg.APISpec) # <<>>
    /\ TrimSpace(cfg.Prefix) # <<>>
    /\ cfg.ErrorResponse.Body # NilV
    /\ ~RatEq(cfg.Latency.LowFrequency, Rat(0, 1))

\* C29: every configuration loadConfig accepts has latency low and high
\* non-negative with low <= high, a positive error status code and an error
\* frequency in [0,1]; and every document that satisfies these and gives the
\* other fields, frequency 0 and low 0 included, is accepted.
C29_AcceptedIffValid ==
    Loaded =>
       /\ loadResult.config # NilV => ValidRecord(loadResult.config)
       /\ ValidRecord(file.decoded) /\ OtherFieldsGiven(file.decoded) =>
             loadResult.config # NilV

(***************************************************************************)
(* Pacing of the streamed response.                                        *)
(***************************************************************************)
\* the number of time.Sleep calls that returned
RECURSIVE Sleeps(_)
Sleeps(trace) ==
    IF trace = <<>> THEN 0
    ELSE (IF Head(trace).op = "Sleep" THEN 1 ELSE 0) + Sleeps(Tail(trace))

\* C30: in a successful streamed response the dispatch sleeps once before
\* the response, and then each data frame is written, flushed and followed
\* by a sleep of a newly sampled latency, the last data frame included; the
\* termination marker is written only after the sleep that follows the last
\* data frame, and a response with k data frames has slept k + 1 sampled
\* latencies when it is complete.
C30_SleepAfterEveryFrame ==
    \A p \in Procs :
        (isStreaming(req[p]) /\ ~shouldError[p] /\ Marshal(responseData[p]).ok
            /\ pc[p] \in {"sr_loop", "sr_sleep", "done"}) =>
            LET t == w[p].trace
                k == Len(DataChunks(Writes(t)))
            IN  /\ \A j \in 1..Len(t) :
                     t[j].op = CASE j % 3 = 1 -> "Sleep"
                                 [] j % 3 = 2 -> "Write"
                                 [] OTHER -> "Flush"
                /\ pc[p] = "sr_loop" => Len(t) = 3 * k + 1 /\ Sleeps(t) = k + 1
                /\ pc[p] = "sr_sleep" =>
                     /\ Len(t) = 3 * k /\ Sleeps(t) = k
                     /\ \E d \in 0..(LatencyDen - 1) :
                           chosenLatency[p] = getLatency(config, d)
                /\ pc[p] = "done" =>
                     /\ Len(t) = 3 * k + 3
                     /\ Sleeps(t) = k + 1
                     /\ t[Len(t) - 1].s = DoneFrame
                     /\ t[Len(t) - 2].op = "Sleep"
                     /\ \A j \in 1..(Len(t) - 2) : t[j].s # DoneFrame

\* a response of three data frames is complete: four sleeps, the last one
\* between the third data frame and the termination marker
C30_Witness ==
    \E p \in Procs :
        /\ Streamed(p)
        /\ Len(DataChunks(Writes(w[p].trace))) = 3
        /\ Sleeps(w[p].trace) = 4
        /\ Len(w[p].trace) = 12
        /\ w[p].trace[10].op = "Sleep"
        /\ w[p].trace[11].s = DoneFrame

(***************************************************************************)
(* The status line of a response.                                          *)
(***************************************************************************)
\* the calls on the ResponseWriter, in order, without the sleeps
RECURSIVE SinkCalls(_)
SinkCalls(trace) ==
    IF trace = <<>> THEN <<>>
    ELSE IF Head(trace).op = "Sleep" THEN SinkCalls(Tail(trace))
    ELSE <<Head(trace).op>> \o SinkCalls(Tail(trace))

\* the status writes of a response: every call of WriteHeader, and the first
\* Write or Flush when no WriteHeader came before it (it sends the status 200)
StatusCodeWrites(trace) ==
    LET calls_ == SinkCalls(trace)
    IN  Cardinality({j \in 1..Len(calls_) : calls_[j] = "WriteHeader"})
          + (IF calls_ # <<>> /\ calls_[1] # "WriteHeader" THEN 1 ELSE 0)

\* C31: a finished dispatch has written the status code exactly once, and
\* before every write of the body: on the direct, streamed and simulated
\* error paths, on their serialization failures, and when a write fails.
C31_OneStatusWriteFirst ==
    \A p \in Procs :
        pc[p] = "done" =>
            LET calls_ == SinkCalls(w[p].trace)
            IN  /\ StatusCodeWrites(w[p].trace) = 1
                /\ \A j \in 2..Len(calls_) : calls_[j] # "WriteHeader"

(***************************************************************************)
(* The adjusted probability above 1.                                       *)
(***************************************************************************)
\* C32: the adjusted probability is not clamped: when a call of ShouldError
\* on a simulator whose target frequency is above 0.667 computes a rate
\* below the target, its adjusted probability is above 1, every draw is
\* below it, and the call returns true.
C32_UnclampedAlwaysFires ==
    [][\A p \in Procs :
         LET tf == simulators[sim[p]].targetFrequency
             prob == AdjustedProb(tf, requests[p], currentErrors[p])
         IN  (/\ pc[p] = "se_decide" /\ pc'[p] = "se_returned"
              /\ RatLess(Rat(667, 1000), tf)
              /\ RatLess(Rat(currentErrors[p], requests[p]), tf)) =>
                 /\ RatLess(Rat(1, 1), prob)
                 /\ \A k \in 0..(DrawDen - 1) : DrawBelow(k, prob)
                 /\ shouldError'[p]]_vars

\* a call with target 0.75 saw no error in its one request, drew the largest
\* value and returned true
C32_Witness ==
    \E p \in Procs :
        /\ pc[p] = "se_returned"
        /\ simulators[sim[p]].targetFrequency = Rat(3, 4)
        /\ requests[p] = 1 /\ currentErrors[p] = 0
        /\ draw[p] = DrawDen - 1
        /\ shouldError[p]

(***************************************************************************)
(* The counters over the life of the process.                              *)
(***************************************************************************)
\* C33: the two counters of a simulator never decrease and are never reset:
\* every step of ShouldError, of GetCurrentErrorRate and of a dispatch
\* leaves each counter as it is or adds one to it.
C33_CountersMonotone ==
    [][\A e \in DOMAIN simulators :
          /\ simulators'[e].totalRequests \in
                {simulators[e].totalRequests, simulators[e].totalRequests + 1}
          /\ simulators'[e].totalErrors \in
                {simulators[e].totalErrors, simulators[e].totalErrors + 1}]_vars

\* both counters have grown to the number of calls while a goroutine is
\* reading them in GetCurrentErrorRate
C33_Witness ==
    \E p \in Procs :
        /\ pc[p] = "gr_returned"
        /\ simulators[sim[p]].totalRequests = MaxRequests
        /\ simulators[sim[p]].totalErrors = MaxRequests
        /\ rate[p] = Rat(MaxRequests, MaxRequests)

(***************************************************************************)
(* Termination.                                                            *)
(***************************************************************************)
\* C34: every dispatch terminates: a request that has entered handleRequest
\* eventually returns, on every path, and the chunk loop of streamResponse
\* advances by a positive chunk size whenever it has bytes left, so that it
\* ends for every length of the payload.
C34_DispatchTerminates ==
    /\ [](\A p \in Procs :
             /\ pc[p] \in {"sr_loop", "sr_sleep"} /\ loop_i[p] < Len(jsonBytes[p]) =>
                   chunkSize[p] > 0
             /\ pc[p] \in {"se_returned", "eb_convert", "gd_convert"} =>
                   IF shouldError[p]
                     THEN convertToJSONCompatible(config.ErrorResponse.Body) # {}
                     ELSE getResponseData(req[p].path, config) # {})
    /\ \A p \in Procs : (pc[p] \in DispatchLocations) ~> (pc[p] = "done")

\* a streamed response whose payload has fewer bytes than the chunk count
\* has returned after one data frame and the termination marker
C34_Witness ==
    \E p \in Procs :
        /\ pc[p] = "done"
        /\ Streamed(p)
        /\ Len(jsonBytes[p]) < ChunkCount
        /\ chunkSize[p] = Len(jsonBytes[p])
        /\ Len(DataChunks(Writes(w[p].trace))) = 1

(***************************************************************************)
(* The data frames as a partition of the payload.                          *)
(***************************************************************************)
\* C35: the data frames of a streamed response carry contiguous, non-empty,
\* non-overlapping pieces of the serialized JSON in order: at every point of
\* the loop the payloads written so far, concatenated, are the first bytes
\* of the serialization of the resolved value up to the loop index, and
\* when the response is complete they are exactly its bytes.
C35_FramesPartitionPayload ==
    \A p \in Procs :
        (isStreaming(req[p]) /\ ~shouldError[p] /\ Marshal(responseData[p]).ok
            /\ pc[p] \in {"sr_loop", "sr_sleep", "done"}) =>
            LET bytes == Marshal(responseData[p]).bytes
                chunks == DataChunks(Writes(w[p].trace))
                sent == Join(chunks, <<>>)
            IN  /\ \A j \in 1..Len(chunks) : chunks[j] # <<>>
                /\ Len(sent) <= Len(bytes)
                /\ sent = SubSeq(bytes, 1, Len(sent))
                /\ pc[p] = "sr_loop" =>
                     Len(sent) = (IF loop_i[p] > Len(bytes) THEN Len(bytes) ELSE loop_i[p])
                /\ pc[p] = "done" => sent = bytes

\* a payload of seven bytes has gone out in four data frames of 2, 2, 2 and
\* 1 bytes
C35_Witness ==
    \E p \in Procs :
        /\ Streamed(p)
        /\ Len(jsonBytes[p]) = 7
        /\ LET chunks == DataChunks(Writes(w[p].trace))
           IN  /\ Len(chunks) = 4
               /\ Len(chunks[1]) = 2 /\ Len(chunks[4]) = 1
               /\ Join(chunks, <<>>) = Marshal(responseData[p]).bytes

(***************************************************************************)
(* The snapshot of a ShouldError call.                                     *)
(***************************************************************************)
\* C36: in every interleaving of ShouldError calls on a fresh simulator the
\* totalErrors value a call reads is at most the totalRequests value its own
\* increment returned, so the rate it compares with the target is in [0,1].
C36_SnapshotRateInUnitInterval ==
    \A p \in Procs :
        pc[p] \in {"se_decide", "se_returned"} /\ requests[p] > 0 =>
            /\ currentErrors[p] <= requests[p]
            /\ ~RatLess(Rat(currentErrors[p], requests[p]), Rat(0, 1))
            /\ ~RatLess(Rat(1, 1), Rat(currentErrors[p], requests[p]))

(***************************************************************************)
(* Two resolutions of one path.                                            *)
(***************************************************************************)
\* C37: getResponseData is deterministic: two calls with the same path on
\* the same override table return equal values, also for a structured
\* override that has distinct non-string keys with the same string form.
C37_ResolveDeterministic ==
    (\A p \in Procs : pc[p] = "hr_respond") =>
        \A p, q \in Procs : responseData[p] = responseData[q]

(***************************************************************************)
(* Properties of the router.                                               *)
(***************************************************************************)
\* the request of p was for a full path of the API spec, with a method the
\* spec lists for it
ListedPath(p) == match[p].path \in Templates(router)
ListedMethod(p) ==
    \E i \in DOMAIN router : /\ router[i].template = match[p].path
                              /\ ~router[i].any
                              /\ match[p].method \in router[i].methods
\* the JSON error of sendJSONError went out with the status code
JSONErrorSent(p, code, message) ==
    /\ pc[p] = "done"
    /\ w[p].status = code
    /\ w[p].contentType = "application/json"
    /\ Body(w[p]) = <<"{", "\"", "e", "r", "r", "o", "r", "\"", ":", "\"">> \o message \o <<"\"", "}">> \o <<"\n">>
\* no simulator has counted anything
CountersUntouched ==
    \A e \in DOMAIN simulators :
        simulators[e].totalRequests = 0 /\ simulators[e].totalErrors = 0

\* C38: handleRequest is called for exactly the (path, method) pairs the
\* API spec lists under the prefix; a listed path with another method is
\* answered 405 with the JSON error "Method not allowed", every unlisted
\* path 404 with the JSON error "Not found", and neither touches the
\* simulator counters.
C38_RouterDispatchesListedPairs ==
    \A p \in Procs :
        match[p].handler # "" =>
            /\ match[p].handler = "handleRequest" <=> (ListedPath(p) /\ ListedMethod(p))
            /\ ListedPath(p) /\ ~ListedMethod(p) =>
                  JSONErrorSent(p, StatusMethodNotAllowed, MethodNotAllowed)
                     /\ CountersUntouched
            /\ ~ListedPath(p) =>
                  JSONErrorSent(p, StatusNotFound, NotFound) /\ CountersUntouched

====
